---- MODULE Spec2Model ----
(***************************************************************************)
(* SkillSync: multilingual skill extraction, skill normalisation, job and  *)
(* learning recommendation, and the pipeline that sequences them.          *)
(*                                                                         *)
(* Text is a sequence of characters.  An ASCII character is the one-letter *)
(* string itself; a character outside ASCII is written "uXXXX", the name   *)
(* of its code point, so that len() and substring containment count code   *)
(* points, as Python's str does.                                           *)
(***************************************************************************)
EXTENDS Integers, Sequences, FiniteSets, TLC

\* ------------------------------------------------------------------------
\* Bounds of the model
\* ------------------------------------------------------------------------

\* An utterance given to extract_skills has at most MaxPhrases phrases.
MaxPhrases == 3

\* An utterance given to the pipeline has at most MaxPipelinePhrases phrases.
MaxPipelinePhrases == 2

\* A job file has at most MaxJobs rows.
MaxJobs == 3

\* A skill list given to the recommender has at most MaxSkills skills.
MaxSkills == 2

\* top_k is at most MaxTopK.
MaxTopK == 2

\* A batch given to batch_process has at most MaxBatch texts.
MaxBatch == 2

\* An utterance given to extract_experience_years or extract_job_title has at
\* most MaxFieldPhrases phrases.
MaxFieldPhrases == 2

\* ------------------------------------------------------------------------
\* State
\* ------------------------------------------------------------------------

VARIABLES
  op,                \* the operation that ran last ("none" before any)
  utterance,         \* the text extract_skills was last given
  skills_found,      \* the list extract_skills last returned
  normalizer_taxonomy,
                     \* SkillNormalizer.skill_taxonomy
  encode,            \* SkillNormalizer.model: the encoder, text -> embedding
  skill_embeddings,  \* SkillNormalizer.skill_embeddings
  jobs_df,           \* JobRecommender.jobs_df
  vectorizer,        \* JobRecommender.vectorizer
  job_vectors,       \* JobRecommender.job_vectors
  learning_df,       \* JobRecommender.learning_df, without relevance_score
  relevance_score,   \* the relevance_score column of learning_df (<<>>: none)
  request,           \* the arguments of the call
  audio_processor,   \* SkillSyncPipeline.audio_processor: "none" or "ready"
  transcription_result,
                     \* process_audio_input: what transcribe_audio returned
  calls,             \* the collaborators' methods the call invoked, in order
  outcome,           \* how the call ended: a returned value or a raised error
  pc,                \* concurrent requests: the line each thread is at
  locals,            \* concurrent requests: each thread's local variables
  db                 \* app_api: the tables of the SkillSyncDB

\* ------------------------------------------------------------------------
\* Python built-ins used by the code
\* ------------------------------------------------------------------------

\* str.lower() on the characters the utterances are written with.
upper_to_lower ==
  [c \in {"A","B","C","D","E","F","G","H","I","J","K","L","M",
          "N","O","P","Q","R","S","T","U","V","W","X","Y","Z"} |->
     CASE c = "A" -> "a" [] c = "B" -> "b" [] c = "C" -> "c" [] c = "D" -> "d"
       [] c = "E" -> "e" [] c = "F" -> "f" [] c = "G" -> "g" [] c = "H" -> "h"
       [] c = "I" -> "i" [] c = "J" -> "j" [] c = "K" -> "k" [] c = "L" -> "l"
       [] c = "M" -> "m" [] c = "N" -> "n" [] c = "O" -> "o" [] c = "P" -> "p"
       [] c = "Q" -> "q" [] c = "R" -> "r" [] c = "S" -> "s" [] c = "T" -> "t"
       [] c = "U" -> "u" [] c = "V" -> "v" [] c = "W" -> "w" [] c = "X" -> "x"
       [] c = "Y" -> "y" [] c = "Z" -> "z"]

RECURSIVE lower(_)
lower(s) ==
  IF s = <<>> THEN <<>>
  ELSE <<IF Head(s) \in DOMAIN upper_to_lower
         THEN upper_to_lower[Head(s)] ELSE Head(s)>> \o lower(Tail(s))

\* `sub in s` for strings: sub occurs in s as a contiguous run of characters.
contains(s, sub) ==
  \E i \in 0..(Len(s) - Len(sub)) :
     \A j \in 1..Len(sub) : s[i + j] = sub[j]

\* max(...) of a non-empty set of integers.
max(S) == CHOOSE m \in S : \A n \in S : n <= m

\* sorted(seq, key=..., reverse=True), keys[i] being the key of seq[i]:
\* Python's sort is stable, and with reverse=True elements of equal key keep
\* their original relative order.
sorted_reverse(seq, keys) ==
  LET n == Len(keys)
      rank(i) == Cardinality({j \in 1..n :
                     \/ keys[j] > keys[i]
                     \/ keys[j] = keys[i] /\ j < i}) + 1
  IN  [r \in 1..n |-> seq[CHOOSE i \in 1..n : rank(i) = r]]

\* How a call ends: it has not, it returned a value, it raised an exception.
no_outcome == [kind |-> "none"]

returned(value) == [kind |-> "return", value |-> value]

raised(exception) == [kind |-> "raise", exception |-> exception]

\* ------------------------------------------------------------------------
\* MultilingualSkillExtractor
\* ------------------------------------------------------------------------

\* self.multilingual_keywords, in the dict's insertion order.
multilingual_keywords ==
  <<
    [skill |-> "Electrical Wiring", keywords |-> <<
       <<"w","i","r","i","n","g">>,
       <<"w","i","r","e">>,
       <<"e","l","e","c","t","r","i","c","a","l">>,
       <<"e","l","e","c","t","r","i","c">>,
       <<"u0907","u0932","u0947","u0915","u094D","u091F","u094D","u0930","u093F","u0915">>,
       <<"u0935","u093E","u092F","u0930","u093F","u0902","u0917">>,
       <<"u0BAE","u0BBF","u0BA9","u0BCD","u0B9A","u0BBE","u0BB0","u0BAE","u0BCD">>,
       <<"u0BB5","u0BAF","u0BB0","u0BBF","u0B99","u0BCD">>,
       <<"u0C35","u0C3F","u0C26","u0C4D","u0C2F","u0C41","u0C24","u0C4D">>,
       <<"u0C35","u0C48","u0C30","u0C3F","u0C02","u0C17","u0C4D">>,
       <<"u0CB5","u0CBF","u0CA6","u0CCD","u0CAF","u0CC1","u0CA4","u0CCD">>,
       <<"u0CB5","u0CC8","u0CB0","u0CBF","u0C82","u0C97","u0CCD">>,
       <<"h","o","u","s","e"," ","w","i","r","i","n","g">>,
       <<"u0918","u0930"," ","u0915","u0940"," ","u0935","u093E","u092F","u0930","u093F","u0902","u0917">>,
       <<"u0BB5","u0BC0","u0B9F","u0BCD","u0B9F","u0BC1"," ","u0BB5","u0BAF","u0BB0","u0BBF","u0B99","u0BCD">>
    >>],
    [skill |-> "Fan Installation", keywords |-> <<
       <<"f","a","n">>,
       <<"u092A","u0902","u0916","u093E">>,
       <<"u0BB5","u0BBF","u0B9A","u0BBF","u0BB1","u0BBF">>,
       <<"u0C2B","u0C4D","u0C2F","u0C3E","u0C28","u0C4D">>,
       <<"u0CAB","u0CCD","u0CAF","u0CBE","u0CA8","u0CCD">>,
       <<"f","a","n"," ","i","n","s","t","a","l","l","a","t","i","o","n">>,
       <<"f","a","n"," ","f","i","t","t","i","n","g">>,
       <<"u092A","u0902","u0916","u093E"," ","u0932","u0917","u093E","u0928","u093E">>
    >>],
    [skill |-> "Switch Board Repair", keywords |-> <<
       <<"s","w","i","t","c","h">>,
       <<"b","o","a","r","d">>,
       <<"u0938","u094D","u0935","u093F","u091A">>,
       <<"u0938","u094D","u0935","u093F","u091A"," ","u092C","u094B","u0930","u094D","u0921">>,
       <<"u0B9A","u0BC1","u0BB5","u0BBF","u0B9F","u0BCD","u0B9A","u0BCD">>,
       <<"u0C38","u0C4D","u0C35","u0C3F","u0C1A","u0C4D">>,
       <<"u0CB8","u0CCD","u0CB5","u0CBF","u0C9A","u0CCD">>,
       <<"s","w","i","t","c","h","b","o","a","r","d">>,
       <<"s","w","i","t","c","h"," ","b","o","a","r","d">>
    >>],
    [skill |-> "Motor Winding", keywords |-> <<
       <<"m","o","t","o","r">>,
       <<"w","i","n","d","i","n","g">>,
       <<"u092E","u094B","u091F","u0930">>,
       <<"u0935","u093E","u0907","u0902","u0921","u093F","u0902","u0917">>,
       <<"u0BAE","u0BCB","u0B9F","u0BCD","u0B9F","u0BBE","u0BB0","u0BCD">>,
       <<"u0C2E","u0C4B","u0C1F","u0C3E","u0C30","u0C4D">>,
       <<"u0CAE","u0CCB","u0C9F","u0CBE","u0CB0","u0CCD">>,
       <<"m","o","t","o","r"," ","r","e","p","a","i","r">>,
       <<"m","o","t","o","r"," ","w","i","n","d","i","n","g">>
    >>],
    [skill |-> "Pipe Fitting", keywords |-> <<
       <<"p","i","p","e">>,
       <<"p","l","u","m","b","i","n","g">>,
       <<"u092A","u093E","u0907","u092A">>,
       <<"u092A","u094D","u0932","u0902","u092C","u093F","u0902","u0917">>,
       <<"u0B95","u0BC1","u0BB4","u0BBE","u0BAF","u0BCD">>,
       <<"u0C2A","u0C48","u0C2A","u0C4D">>,
       <<"u0CAA","u0CC8","u0CAA","u0CCD">>,
       <<"p","i","p","e"," ","f","i","t","t","i","n","g">>,
       <<"p","i","p","e"," ","w","o","r","k">>,
       <<"u092A","u093E","u0907","u092A"," ","u092B","u093F","u091F","u093F","u0902","u0917">>
    >>],
    [skill |-> "Tap Repair", keywords |-> <<
       <<"t","a","p">>,
       <<"u0928","u0932">>,
       <<"u0B95","u0BC1","u0BB4","u0BBE","u0BAF","u0BCD">>,
       <<"u0C15","u0C41","u0C33","u0C3E","u0C2F","u0C3F">>,
       <<"u0C9F","u0CCD","u0CAF","u0CBE","u0CAA","u0CCD">>,
       <<"t","a","p"," ","r","e","p","a","i","r">>,
       <<"u0928","u0932"," ","u0915","u0940"," ","u092E","u0930","u092E","u094D","u092E","u0924">>,
       <<"l","e","a","k">>,
       <<"l","e","a","k","a","g","e">>
    >>],
    [skill |-> "Arc Welding", keywords |-> <<
       <<"w","e","l","d">>,
       <<"w","e","l","d","i","n","g">>,
       <<"u0935","u0947","u0932","u094D","u0921","u093F","u0902","u0917">>,
       <<"u0BB5","u0BC6","u0BB2","u0BCD","u0B9F","u0BBF","u0B99","u0BCD">>,
       <<"u0C35","u0C46","u0C32","u0C4D","u0C21","u0C3F","u0C02","u0C17","u0C4D">>,
       <<"u0CB5","u0CC6","u0CB2","u0CCD","u0CA1","u0CBF","u0C82","u0C97","u0CCD">>,
       <<"a","r","c"," ","w","e","l","d","i","n","g">>
    >>],
    [skill |-> "Steel Fabrication", keywords |-> <<
       <<"s","t","e","e","l">>,
       <<"f","a","b","r","i","c","a","t","i","o","n">>,
       <<"u0938","u094D","u091F","u0940","u0932">>,
       <<"u092B","u0948","u092C","u094D","u0930","u093F","u0915","u0947","u0936","u0928">>,
       <<"u0B87","u0BB0","u0BC1","u0BAE","u0BCD","u0BAA","u0BC1">>,
       <<"u0C09","u0C15","u0C4D","u0C15","u0C41">>,
       <<"u0C89","u0C95","u0CCD","u0C95","u0CC1">>,
       <<"s","t","e","e","l"," ","w","o","r","k">>,
       <<"s","t","e","e","l"," ","f","a","b","r","i","c","a","t","i","o","n">>
    >>],
    [skill |-> "Gate Making", keywords |-> <<
       <<"g","a","t","e">>,
       <<"u0917","u0947","u091F">>,
       <<"u0BB5","u0BBE","u0BAF","u0BBF","u0BB2","u0BCD">>,
       <<"u0C17","u0C47","u0C1F","u0C4D">>,
       <<"u0C97","u0CC7","u0C9F","u0CCD">>,
       <<"g","a","t","e"," ","m","a","k","i","n","g">>,
       <<"g","a","t","e"," ","w","o","r","k">>
    >>],
    [skill |-> "Wood Cutting", keywords |-> <<
       <<"w","o","o","d"," ","c","u","t","t","i","n","g">>,
       <<"u0932","u0915","u0921","u093C","u0940"," ","u0915","u093E","u091F","u0928","u093E">>,
       <<"u0BAE","u0BB0","u0BAE","u0BCD"," ","u0BB5","u0BC6","u0B9F","u0BCD","u0B9F","u0BC1","u0BA4","u0BB2","u0BCD">>,
       <<"w","o","o","d"," ","w","o","r","k">>,
       <<"w","o","o","d">>,
       <<"u0932","u0915","u0921","u093C","u0940">>,
       <<"u0BAE","u0BB0","u0BAE","u0BCD">>,
       <<"u0C1A","u0C46","u0C15","u0C4D","u0C15">>,
       <<"u0CAE","u0CB0">>
    >>],
    [skill |-> "Furniture Making", keywords |-> <<
       <<"f","u","r","n","i","t","u","r","e">>,
       <<"u092B","u0930","u094D","u0928","u0940","u091A","u0930">>,
       <<"u0BAA","u0BB0","u0BCD","u0BA9","u0BBF","u0B9A","u0BCD","u0B9A","u0BB0","u0BCD">>,
       <<"u0C2B","u0C30","u0C4D","u0C28","u0C3F","u0C1A","u0C30","u0C4D">>,
       <<"u0CAA","u0CC0","u0CA0","u0CCB","u0CAA","u0C95","u0CB0","u0CA3">>,
       <<"c","a","r","p","e","n","t","e","r">>,
       <<"c","a","r","p","e","n","t","r","y">>,
       <<"u092C","u0922","u093C","u0908">>,
       <<"u0BA4","u0B9A","u0BCD","u0B9A","u0BC1">>,
       <<"u0C35","u0C21","u0C4D","u0C30","u0C02","u0C17","u0C3F">>,
       <<"u0CAC","u0CA1","u0C97","u0CBF">>,
       <<"f","u","r","n","i","t","u","r","e"," ","m","a","k","i","n","g">>,
       <<"u092B","u0930","u094D","u0928","u0940","u091A","u0930"," ","u092C","u0928","u093E","u0928","u093E">>
    >>],
    [skill |-> "Door Fitting", keywords |-> <<
       <<"d","o","o","r">>,
       <<"u0926","u0930","u0935","u093E","u091C","u093E">>,
       <<"u0B95","u0BA4","u0BB5","u0BC1">>,
       <<"u0C24","u0C32","u0C41","u0C2A","u0C41">>,
       <<"u0CAC","u0CBE","u0C97","u0CBF","u0CB2","u0CC1">>,
       <<"d","o","o","r"," ","f","i","t","t","i","n","g">>,
       <<"d","o","o","r"," ","i","n","s","t","a","l","l","a","t","i","o","n">>,
       <<"u0926","u0930","u0935","u093E","u091C","u093E"," ","u0932","u0917","u093E","u0928","u093E">>,
       <<"u0B95","u0BA4","u0BB5","u0BC1"," ","u0BAA","u0BCA","u0BB0","u0BC1","u0BA4","u0BCD","u0BA4","u0BC1","u0BA4","u0BB2","u0BCD">>
    >>],
    [skill |-> "Wall Painting", keywords |-> <<
       <<"p","a","i","n","t">>,
       <<"p","a","i","n","t","i","n","g">>,
       <<"u092A","u0947","u0902","u091F","u093F","u0902","u0917">>,
       <<"u0930","u0902","u0917">>,
       <<"u0BB5","u0BA3","u0BCD","u0BA3","u0BAE","u0BCD">>,
       <<"u0C2A","u0C46","u0C2F","u0C3F","u0C02","u0C1F","u0C3F","u0C02","u0C17","u0C4D">>,
       <<"u0CAA","u0CC7","u0C82","u0C9F","u0CBF","u0C82","u0C97","u0CCD">>,
       <<"w","a","l","l"," ","p","a","i","n","t">>,
       <<"h","o","u","s","e"," ","p","a","i","n","t","i","n","g">>,
       <<"u0926","u0940","u0935","u093E","u0930"," ","u092A","u0947","u0902","u091F","u093F","u0902","u0917">>
    >>],
    [skill |-> "Color Mixing", keywords |-> <<
       <<"c","o","l","o","r">>,
       <<"u0930","u0902","u0917">>,
       <<"u0BB5","u0BA3","u0BCD","u0BA3","u0BAE","u0BCD">>,
       <<"u0C30","u0C02","u0C17","u0C41">>,
       <<"u0CAC","u0CA3","u0CCD","u0CA3">>,
       <<"c","o","l","o","r"," ","m","i","x","i","n","g">>
    >>],
    [skill |-> "Vehicle Driving", keywords |-> <<
       <<"d","r","i","v","e">>,
       <<"d","r","i","v","i","n","g">>,
       <<"d","r","i","v","e","r">>,
       <<"u0921","u094D","u0930","u093E","u0907","u0935","u093F","u0902","u0917">>,
       <<"u0921","u094D","u0930","u093E","u0907","u0935","u0930">>,
       <<"u0B93","u0B9F","u0BCD","u0B9F","u0BC1","u0BA4","u0BB2","u0BCD">>,
       <<"u0C21","u0C4D","u0C30","u0C48","u0C35","u0C3F","u0C02","u0C17","u0C4D">>,
       <<"u0C9A","u0CBE","u0CB2","u0CA8","u0CC6">>,
       <<"c","a","r"," ","d","r","i","v","i","n","g">>,
       <<"t","r","u","c","k"," ","d","r","i","v","i","n","g">>,
       <<"v","e","h","i","c","l","e"," ","d","r","i","v","i","n","g">>,
       <<"d","r","i","v","e"," ","c","a","r">>,
       <<"d","r","i","v","e"," ","t","r","u","c","k">>,
       <<"d","r","i","v","e"," ","v","e","h","i","c","l","e">>,
       <<"d","r","i","v","e"," ","a","l","l"," ","v","e","h","i","c","l","e">>,
       <<"i"," ","w","o","r","k"," ","a","s"," ","d","r","i","v","e","r">>,
       <<"w","o","r","k"," ","a","s"," ","d","r","i","v","e","r">>
    >>],
    [skill |-> "Dress Stitching", keywords |-> <<
       <<"s","t","i","t","c","h">>,
       <<"s","t","i","t","c","h","i","n","g">>,
       <<"t","a","i","l","o","r">>,
       <<"u0938","u093F","u0932","u093E","u0908">>,
       <<"u0926","u0930","u094D","u091C","u0940">>,
       <<"u0BA4","u0BC8","u0BAF","u0BB2","u0BCD">>,
       <<"u0C15","u0C41","u0C1F","u0C4D","u0C1F","u0C41">>,
       <<"u0CB9","u0CCA","u0CB2","u0CBF","u0C97","u0CC6">>,
       <<"d","r","e","s","s">>,
       <<"c","l","o","t","h">>,
       <<"u0915","u092A","u0921","u093C","u093E">>
    >>],
    [skill |-> "Blouse Stitching", keywords |-> <<
       <<"b","l","o","u","s","e">>,
       <<"u092C","u094D","u0932","u093E","u0909","u091C">>,
       <<"u0BAA","u0BC1","u0B9F","u0BB5","u0BC8">>,
       <<"u0C2C","u0C4D","u0C32","u0C4C","u0C1C","u0C4D">>,
       <<"u0CAC","u0CCD","u0CB2","u0CCC","u0CB8","u0CCD">>
    >>],
    [skill |-> "Saree Fall", keywords |-> <<
       <<"s","a","r","e","e">>,
       <<"u0938","u093E","u0921","u093C","u0940">>,
       <<"u0BAA","u0BC1","u0B9F","u0BB5","u0BC8">>,
       <<"u0C1A","u0C40","u0C30">>,
       <<"u0CB8","u0CC0","u0CB0","u0CC6">>,
       <<"f","a","l","l">>,
       <<"s","a","r","e","e"," ","f","a","l","l">>
    >>],
    [skill |-> "Churidar Making", keywords |-> <<
       <<"c","h","u","r","i","d","a","r">>,
       <<"u091A","u0942","u0921","u093C","u0940","u0926","u093E","u0930">>,
       <<"u0B9A","u0BC1","u0BB0","u0BBF","u0BA4","u0BBE","u0BB0","u0BCD">>,
       <<"u0C1A","u0C41","u0C21","u0C3F","u0C26","u0C3E","u0C30","u0C4D">>,
       <<"u0C9A","u0CC1","u0CA1","u0CBF","u0CA6","u0CBE","u0CB0">>
    >>],
    [skill |-> "General Repair", keywords |-> <<
       <<"g","e","n","e","r","a","l"," ","r","e","p","a","i","r">>,
       <<"u092E","u0930","u092E","u094D","u092E","u0924">>,
       <<"u0BAA","u0BB4","u0BC1","u0BA4","u0BC1">>,
       <<"u0C30","u0C3F","u0C2A","u0C47","u0C30","u0C4D">>,
       <<"u0CA6","u0CC1","u0CB0","u0CB8","u0CCD","u0CA4","u0CBF">>,
       <<"m","a","i","n","t","e","n","a","n","c","e"," ","w","o","r","k">>,
       <<"g","e","n","e","r","a","l"," ","m","a","i","n","t","e","n","a","n","c","e">>
    >>],
    [skill |-> "Two Wheeler Repair", keywords |-> <<
       <<"b","i","k","e">>,
       <<"m","o","t","o","r","c","y","c","l","e">>,
       <<"s","c","o","o","t","e","r">>,
       <<"u092C","u093E","u0907","u0915">>,
       <<"u0938","u094D","u0915","u0942","u091F","u0930">>,
       <<"u0BAA","u0BC8","u0B95","u0BCD">>,
       <<"u0C2C","u0C48","u0C15","u0C4D">>,
       <<"u0CAC","u0CC8","u0C95","u0CCD">>,
       <<"t","w","o"," ","w","h","e","e","l","e","r">>
    >>],
    [skill |-> "Four Wheeler Repair", keywords |-> <<
       <<"c","a","r"," ","r","e","p","a","i","r">>,
       <<"v","e","h","i","c","l","e"," ","r","e","p","a","i","r">>,
       <<"u0915","u093E","u0930"," ","u092E","u0930","u092E","u094D","u092E","u0924">>,
       <<"u0917","u093E","u0921","u093C","u0940"," ","u092E","u0930","u092E","u094D","u092E","u0924">>,
       <<"f","o","u","r"," ","w","h","e","e","l","e","r"," ","r","e","p","a","i","r">>,
       <<"c","a","r"," ","m","e","c","h","a","n","i","c">>,
       <<"v","e","h","i","c","l","e"," ","m","e","c","h","a","n","i","c">>,
       <<"a","u","t","o"," ","m","e","c","h","a","n","i","c">>,
       <<"a","u","t","o","m","o","b","i","l","e"," ","r","e","p","a","i","r">>
    >>],
    [skill |-> "Mobile Repair", keywords |-> <<
       <<"m","o","b","i","l","e"," ","r","e","p","a","i","r">>,
       <<"p","h","o","n","e"," ","r","e","p","a","i","r">>,
       <<"u092E","u094B","u092C","u093E","u0907","u0932"," ","u0930","u093F","u092A","u0947","u092F","u0930">>,
       <<"u092B","u094B","u0928"," ","u0930","u093F","u092A","u0947","u092F","u0930">>,
       <<"m","o","b","i","l","e"," ","m","e","c","h","a","n","i","c">>,
       <<"p","h","o","n","e"," ","m","e","c","h","a","n","i","c">>,
       <<"m","o","b","i","l","e"," ","f","i","x","i","n","g">>,
       <<"p","h","o","n","e"," ","f","i","x","i","n","g">>,
       <<"c","e","l","l"," ","p","h","o","n","e"," ","r","e","p","a","i","r">>,
       <<"s","m","a","r","t","p","h","o","n","e"," ","r","e","p","a","i","r">>,
       <<"i","p","h","o","n","e"," ","r","e","p","a","i","r">>,
       <<"s","a","m","s","u","n","g"," ","r","e","p","a","i","r">>,
       <<"a","n","d","r","o","i","d"," ","r","e","p","a","i","r">>,
       <<"a","l","l"," ","i","c","o","n">>,
       <<"a","l","l"," ","b","r","a","n","d","s">>,
       <<"u0938","u092D","u0940"," ","u092C","u094D","u0930","u093E","u0902","u0921">>,
       <<"m","o","b","i","l","e">>,
       <<"p","h","o","n","e">>,
       <<"u092E","u094B","u092C","u093E","u0907","u0932">>,
       <<"u092B","u094B","u0928">>,
       <<"u0BAE","u0BCA","u0BAA","u0BC8","u0BB2","u0BCD">>,
       <<"u0C2B","u0C4B","u0C28","u0C4D">>,
       <<"u0CAE","u0CCA","u0CAC","u0CC8","u0CB2","u0CCD">>
    >>],
    [skill |-> "Screen Replacement", keywords |-> <<
       <<"s","c","r","e","e","n"," ","r","e","p","l","a","c","e","m","e","n","t">>,
       <<"s","c","r","e","e","n"," ","r","e","p","a","i","r">>,
       <<"s","c","r","e","e","n"," ","c","h","a","n","g","e">>,
       <<"d","i","s","p","l","a","y"," ","r","e","p","l","a","c","e","m","e","n","t">>,
       <<"d","i","s","p","l","a","y"," ","r","e","p","a","i","r">>,
       <<"s","c","r","e","e","n">>,
       <<"d","i","s","p","l","a","y">>,
       <<"u0938","u094D","u0915","u094D","u0930","u0940","u0928">>,
       <<"u0921","u093F","u0938","u094D","u092A","u094D","u0932","u0947">>,
       <<"u0BA4","u0BBF","u0BB0","u0BC8">>,
       <<"u0C38","u0C4D","u0C15","u0C4D","u0C30","u0C40","u0C28","u0C4D">>,
       <<"u0CAA","u0CB0","u0CA6","u0CC6">>
    >>],
    [skill |-> "Battery Replacement", keywords |-> <<
       <<"b","a","t","t","e","r","y"," ","r","e","p","l","a","c","e","m","e","n","t">>,
       <<"b","a","t","t","e","r","y"," ","c","h","a","n","g","e">>,
       <<"b","a","t","t","e","r","y"," ","r","e","p","a","i","r">>,
       <<"b","a","t","t","e","r","y">>,
       <<"u092C","u0948","u091F","u0930","u0940">>,
       <<"u0BAA","u0BC7","u0B9F","u0BCD","u0B9F","u0BB0","u0BBF">>,
       <<"u0C2C","u0C4D","u0C2F","u0C3E","u0C1F","u0C30","u0C40">>,
       <<"u0CAC","u0CCD","u0CAF","u0CBE","u0C9F","u0CB0","u0CBF">>
    >>],
    [skill |-> "Software Troubleshooting", keywords |-> <<
       <<"s","o","f","t","w","a","r","e"," ","i","s","s","u","e">>,
       <<"s","o","f","t","w","a","r","e"," ","p","r","o","b","l","e","m">>,
       <<"s","o","f","t","w","a","r","e"," ","t","r","o","u","b","l","e","s","h","o","o","t","i","n","g">>,
       <<"s","o","f","t","w","a","r","e"," ","r","e","p","a","i","r">>,
       <<"s","o","f","t","w","a","r","e"," ","f","i","x">>,
       <<"s","o","f","t","w","a","r","e"," ","i","s","s","u","e","s">>,
       <<"s","o","f","t","w","a","r","e">>,
       <<"u0938","u0949","u092B","u094D","u091F","u0935","u0947","u092F","u0930">>,
       <<"u0BAE","u0BC6","u0BA9","u0BCD","u0BAA","u0BCA","u0BB0","u0BC1","u0BB3","u0BCD">>,
       <<"u0C38","u0C3E","u0C2B","u0C4D","u0C1F","u0C4D","u200C","u0C35","u0C47","u0C30","u0C4D">>,
       <<"u0CB8","u0CBE","u0CAB","u0CCD","u0C9F","u0CCD","u200C","u0CB5","u0CC7","u0CB0","u0CCD">>
    >>],
    [skill |-> "Hair Cutting", keywords |-> <<
       <<"h","a","i","r">>,
       <<"h","a","i","r","c","u","t">>,
       <<"u092C","u093E","u0932">>,
       <<"u0939","u0947","u092F","u0930","u0915","u091F">>,
       <<"u0BAE","u0BC1","u0B9F","u0BBF">>,
       <<"u0C39","u0C46","u0C2F","u0C3F","u0C30","u0C4D">>,
       <<"u0C95","u0CC2","u0CA6","u0CB2","u0CC1">>,
       <<"h","a","i","r"," ","c","u","t">>,
       <<"u0939","u0947","u092F","u0930"," ","u0915","u091F">>,
       <<"u0BB9","u0BC7","u0BB0","u0BCD"," ","u0B95","u0B9F","u0BCD">>
    >>],
    [skill |-> "Facial Treatment", keywords |-> <<
       <<"f","a","c","i","a","l">>,
       <<"u092B","u0947","u0936","u093F","u092F","u0932">>,
       <<"u0BAE","u0BC1","u0B95">>,
       <<"u0C2B","u0C47","u0C37","u0C3F","u0C2F","u0C32","u0C4D">>,
       <<"u0CAB","u0CC7","u0CB6","u0CBF","u0CAF","u0CB2","u0CCD">>,
       <<"f","a","c","e"," ","t","r","e","a","t","m","e","n","t">>
    >>],
    [skill |-> "Makeup", keywords |-> <<
       <<"m","a","k","e","u","p">>,
       <<"u092E","u0947","u0915","u0905","u092A">>,
       <<"u0B92","u0BAA","u0BCD","u0BAA","u0BA9","u0BC8">>,
       <<"u0C2E","u0C47","u0C15","u0C2A","u0C4D">>,
       <<"u0CAE","u0CC7","u0C95","u0CAA","u0CCD">>,
       <<"m","a","k","e"," ","u","p">>,
       <<"u092E","u0947","u0915"," ","u0905","u092A">>
    >>],
    [skill |-> "Beauty Parlor", keywords |-> <<
       <<"b","e","a","u","t","y">>,
       <<"p","a","r","l","o","r">>,
       <<"p","a","r","l","o","u","r">>,
       <<"s","a","l","o","n">>,
       <<"u092C","u094D","u092F","u0942","u091F","u0940">>,
       <<"u092A","u093E","u0930","u094D","u0932","u0930">>,
       <<"u0B85","u0BB4","u0B95","u0BC1">>,
       <<"u0C38","u0C46","u0C32","u0C42","u0C28","u0C4D">>,
       <<"u0CAC","u0CCD","u0CAF","u0CC2","u0C9F","u0CBF">>,
       <<"u0CAA","u0CBE","u0CB0","u0CCD","u0CB2","u0CB0","u0CCD">>
    >>]
  >>


\* The key of the skill sort: max(len(kw) for kw in x[1]).
max_keyword_len(entry) ==
  max({Len(entry.keywords[k]) : k \in 1..Len(entry.keywords)})

\* len of every keyword of a list.
keyword_lengths(keywords) == [k \in 1..Len(keywords) |-> Len(keywords[k])]

\* A skill with its sorted_keywords; lowered[k] is sorted_keywords[k].lower(),
\* the string the loop tests.
with_sorted_keywords(skill_name, sorted_keywords) ==
  [skill |-> skill_name,
   keywords |-> sorted_keywords,
   lowered |-> [k \in 1..Len(sorted_keywords) |-> lower(sorted_keywords[k])]]

\* The keywords of one skill left in the order of the table.
unsorted_keywords(entry) == with_sorted_keywords(entry.skill, entry.keywords)

\* sorted(keywords, key=len, reverse=True) of one skill.
sort_keywords(entry) ==
  with_sorted_keywords(entry.skill,
                       sorted_reverse(entry.keywords, keyword_lengths(entry.keywords)))

\* The key of sorted_skills, for every item.
longest_keywords(items) == [i \in 1..Len(items) |-> max_keyword_len(items[i])]

each_with_sorted_keywords(items) ==
  [i \in 1..Len(items) |-> sort_keywords(items[i])]

\* sorted(items, key=longest keyword, reverse=True), each skill with its
\* sorted_keywords.
sort_skills(items) ==
  each_with_sorted_keywords(sorted_reverse(items, longest_keywords(items)))

\* sorted_skills: skills by longest keyword, descending, and within a skill
\* the keywords by length, descending.
sorted_skills == sort_skills(multilingual_keywords)

\* self.skill_taxonomy: rows of datasets/skill_taxonomy.csv (a slice of the
\* generated taxonomy), in file order.
skill_taxonomy ==
  <<
    [skill_id |-> 1, skill_name |-> "Electrical Wiring", category |-> "Electrical Work"],
    [skill_id |-> 17, skill_name |-> "Pipe Fitting", category |-> "Plumbing"]
  >>

get_category(skill_name) ==
  LET match == SelectSeq(skill_taxonomy, LAMBDA row : row.skill_name = skill_name)
  IN  IF match # <<>> THEN match[1].category ELSE "General Skills"

\* The first of a skill's sorted_keywords that the text contains (the loop
\* breaks there), 0 if none.
first_match(entry, text_lower) ==
  IF \E k \in 1..Len(entry.lowered) : contains(text_lower, entry.lowered[k])
  THEN CHOOSE k \in 1..Len(entry.lowered) :
         /\ contains(text_lower, entry.lowered[k])
         /\ \A h \in 1..(k - 1) : ~contains(text_lower, entry.lowered[h])
  ELSE 0

\* The entry extract_skills appends for a matched keyword.
extracted_skill(entry, k) ==
  [skill |-> entry.skill,
   category |-> get_category(entry.skill),
   confidence |-> 95,
   method |-> "multilingual_keyword",
   matched_keyword |-> entry.keywords[k]]

\* The matching loop of extract_skills over entries[i..] of sorted_skills,
\* with the list built so far and the set seen_skills.
RECURSIVE match_keywords(_, _, _, _, _)

\* One pass of the loop: k is the first matching keyword of entries[i], 0 if
\* it has none.
match_skill(entries, text_lower, i, k, extracted, seen_skills) ==
  IF k # 0 /\ entries[i].skill \notin seen_skills
  THEN match_keywords(entries, text_lower, i + 1,
                      Append(extracted, extracted_skill(entries[i], k)),
                      seen_skills \cup {entries[i].skill})
  ELSE match_keywords(entries, text_lower, i + 1, extracted, seen_skills)

match_keywords(entries, text_lower, i, extracted, seen_skills) ==
  IF i > Len(entries) THEN extracted
  ELSE match_skill(entries, text_lower, i, first_match(entries[i], text_lower),
                   extracted, seen_skills)

names_of(skills) == {skills[i].skill : i \in 1..Len(skills)}

specific_repairs ==
  {"Mobile Repair", "Two Wheeler Repair", "Four Wheeler Repair",
   "Electrical Wiring", "Pipe Fitting", "Tap Repair"}

\* Whether the driving match counts as driving-specific.
driving_keyword_present(driving_skill) ==
  contains(lower(driving_skill.matched_keyword), <<"d","r","i","v","e">>)

\* A filter that drops General Repair whenever any other skill was found,
\* specific or not.
filter_general_skills_whenever_other(skills) ==
  IF \E s \in names_of(skills) : s # "General Repair"
  THEN SelectSeq(skills, LAMBDA s : s.skill # "General Repair")
  ELSE skills

\* _filter_general_skills: skill_names is read once, before either rule.
filter_general_skills(skills) ==
  LET skill_names == names_of(skills)
      no_general ==
        IF "General Repair" \in skill_names
           /\ \E s \in specific_repairs : s \in skill_names
        THEN SelectSeq(skills, LAMBDA s : s.skill # "General Repair")
        ELSE skills
  IN  IF "Vehicle Driving" \in skill_names /\ "Four Wheeler Repair" \in skill_names
      THEN LET driving_skill ==
                 no_general[CHOOSE i \in 1..Len(no_general) :
                               no_general[i].skill = "Vehicle Driving"]
           IN  IF driving_keyword_present(driving_skill)
               THEN SelectSeq(no_general, LAMBDA s : s.skill # "Four Wheeler Repair")
               ELSE no_general
      ELSE no_general

extract_skills(text) ==
  filter_general_skills(match_keywords(sorted_skills, lower(text), 1, <<>>, {}))

digit_value ==
  ( "0" :> 0 @@ "1" :> 1 @@ "2" :> 2 @@ "3" :> 3 @@ "4" :> 4
 @@ "5" :> 5 @@ "6" :> 6 @@ "7" :> 7 @@ "8" :> 8 @@ "9" :> 9 )

is_digit(c) == c \in DOMAIN digit_value

is_space(c) == c = " "

\* int(s) of a string of digits.
RECURSIVE int(_)
int(s) ==
  IF s = <<>> THEN 0
  ELSE 10 * int(SubSeq(s, 1, Len(s) - 1)) + digit_value[s[Len(s)]]

\* The patterns of extract_experience_years, in the order tried.  Each is
\* (\d+)\s*(?:unit|unit|...); a pattern is given by its units.
experience_patterns ==
  <<
    \* English
    <<<<"y","e","a","r","s">>,
      <<"y","e","a","r">>,
      <<"y","r","s">>,
      <<"y","r">>>>,
    \* Hindi
    <<<<"u0938","u093E","u0932">>,
      <<"u0935","u0930","u094D","u0937">>,
      <<"u0935","u0930","u094D","u0937","u094B","u0902">>>>,
    \* Tamil
    <<<<"u0BB5","u0BB0","u0BC1","u0B9F">>,
      <<"u0BB5","u0BB0","u0BC1","u0B9F","u0BAE","u0BCD">>,
      <<"u0BB5","u0BB0","u0BC1","u0B9F","u0B99","u0BCD","u0B95","u0BB3","u0BCD">>>>,
    \* Telugu
    <<<<"u0C38","u0C02","u0C35","u0C24","u0C4D","u0C38","u0C30">>,
      <<"u0C38","u0C02","u0C35","u0C24","u0C4D","u0C38","u0C30","u0C3E","u0C32">>>>,
    \* Kannada
    <<<<"u0CB5","u0CB0","u0CCD","u0CB7">>,
      <<"u0CB5","u0CB0","u0CCD","u0CB7","u0CA6">>>>
  >>

starts_with(s, i, sub) ==
  /\ i + Len(sub) - 1 <= Len(s)
  /\ \A j \in 1..Len(sub) : s[i + j - 1] = sub[j]

\* The last position of the run of digits (\d+, greedy) that starts at
\* position i; i - 1 when s[i] is no digit.
RECURSIVE digits_end(_, _)
digits_end(s, i) ==
  IF i <= Len(s) /\ is_digit(s[i]) THEN digits_end(s, i + 1) ELSE i - 1

\* The same for a run of whitespace (\s*).
RECURSIVE spaces_end(_, _)
spaces_end(s, i) ==
  IF i <= Len(s) /\ is_space(s[i]) THEN spaces_end(s, i + 1) ELSE i - 1

\* The positions of seq in the opposite order.
reversed(seq) == [i \in 1..Len(seq) |-> seq[Len(seq) + 1 - i]]

\* A findall that yields the matches rightmost first.
findall_rightmost_first(units, s) ==
  LET begins(i) ==
        /\ is_digit(s[i])
        /\ (i = 1 \/ ~ is_digit(s[i - 1]))
        /\ \E u \in 1..Len(units) :
              starts_with(s, spaces_end(s, digits_end(s, i) + 1) + 1,
                          units[u])
      at == reversed(SelectSeq([i \in 1..Len(s) |-> i], begins))
  IN  [m \in 1..Len(at) |-> SubSeq(s, at[m], digits_end(s, at[m]))]

\* re.findall(pattern, s): the digits captured by the matches, leftmost
\* first.  A match starts at a digit that begins a run of digits followed,
\* after any whitespace, by one of the units.
findall(units, s) ==
  LET begins(i) ==
        /\ is_digit(s[i])
        /\ (i = 1 \/ ~ is_digit(s[i - 1]))
        /\ \E u \in 1..Len(units) :
              starts_with(s, spaces_end(s, digits_end(s, i) + 1) + 1,
                          units[u])
      at == SelectSeq([i \in 1..Len(s) |-> i], begins)
  IN  [m \in 1..Len(at) |-> SubSeq(s, at[m], digits_end(s, at[m]))]

RECURSIVE first_pattern_match(_, _)
first_pattern_match(s, p) ==
  IF p > Len(experience_patterns) THEN 0
  ELSE LET matches == findall(experience_patterns[p], s)
       IN  IF matches # <<>> THEN int(matches[1])
           ELSE first_pattern_match(s, p + 1)

extract_experience_years(t) == first_pattern_match(lower(t), 1)

\* self.job_titles, in the dict's insertion order.
job_titles ==
  <<
    [title |-> "Electrician", keywords |-> <<
       <<"e","l","e","c","t","r","i","c","i","a","n">>,
       <<"e","l","e","c","t","r","i","c">>,
       <<"u0907","u0932","u0947","u0915","u094D","u091F","u094D","u0930","u0940","u0936","u093F","u092F","u0928">>,
       <<"u0BAE","u0BBF","u0BA9","u0BCD","u0B9A","u0BBE","u0BB0">>,
       <<"u0C0E","u0C32","u0C15","u0C4D","u0C1F","u0C4D","u0C30","u0C40","u0C37","u0C3F","u0C2F","u0C28","u0C4D">>,
       <<"u0C8E","u0CB2","u0CC6","u0C95","u0CCD","u0C9F","u0CCD","u0CB0","u0CBF","u0CB7","u0CBF","u0CAF","u0CA8","u0CCD">>
    >>],
    [title |-> "Plumber", keywords |-> <<
       <<"p","l","u","m","b","e","r">>,
       <<"p","l","u","m","b","i","n","g">>,
       <<"u092A","u094D","u0932","u0902","u092C","u0930">>,
       <<"u0BAA","u0BBF","u0BB3","u0BAE","u0BCD","u0BAA","u0BB0","u0BCD">>,
       <<"u0C2A","u0C4D","u0C32","u0C02","u0C2C","u0C30","u0C4D">>,
       <<"u0CAA","u0CCD","u0CB2","u0C82","u0CAC","u0CB0","u0CCD">>
    >>],
    [title |-> "Carpenter", keywords |-> <<
       <<"c","a","r","p","e","n","t","e","r">>,
       <<"c","a","r","p","e","n","t","r","y">>,
       <<"u092C","u0922","u093C","u0908">>,
       <<"u0BA4","u0B9A","u0BCD","u0B9A","u0BC1">>,
       <<"u0C35","u0C21","u0C4D","u0C30","u0C02","u0C17","u0C3F">>,
       <<"u0CAC","u0CA1","u0C97","u0CBF">>
    >>],
    [title |-> "Welder", keywords |-> <<
       <<"w","e","l","d","e","r">>,
       <<"w","e","l","d","i","n","g">>,
       <<"u0935","u0947","u0932","u094D","u0921","u0930">>,
       <<"u0BB5","u0BC6","u0BB2","u0BCD","u0B9F","u0BB0","u0BCD">>,
       <<"u0C35","u0C46","u0C32","u0C4D","u0C21","u0C30","u0C4D">>,
       <<"u0CB5","u0CC6","u0CB2","u0CCD","u0CA1","u0CB0","u0CCD">>
    >>],
    [title |-> "Painter", keywords |-> <<
       <<"p","a","i","n","t","e","r">>,
       <<"p","a","i","n","t","i","n","g">>,
       <<"u092A","u0947","u0902","u091F","u0930">>,
       <<"u0B93","u0BB5","u0BBF","u0BAF","u0BB0","u0BCD">>,
       <<"u0C2A","u0C46","u0C2F","u0C3F","u0C02","u0C1F","u0C30","u0C4D">>,
       <<"u0CAA","u0CC7","u0C82","u0C9F","u0CB0","u0CCD">>
    >>],
    [title |-> "Driver", keywords |-> <<
       <<"d","r","i","v","e","r">>,
       <<"d","r","i","v","i","n","g">>,
       <<"u0921","u094D","u0930","u093E","u0907","u0935","u0930">>,
       <<"u0B93","u0B9F","u0BCD","u0B9F","u0BC1","u0BA8","u0BB0","u0BCD">>,
       <<"u0C21","u0C4D","u0C30","u0C48","u0C35","u0C30","u0C4D">>,
       <<"u0C9A","u0CBE","u0CB2","u0C95">>
    >>],
    [title |-> "Tailor", keywords |-> <<
       <<"t","a","i","l","o","r">>,
       <<"u0926","u0930","u094D","u091C","u0940">>,
       <<"u0BA4","u0BC8","u0BAF","u0BB2","u0BCD","u0B95","u0BBE","u0BB0","u0BB0","u0BCD">>,
       <<"u0C26","u0C30","u0C4D","u0C1C","u0C40">>,
       <<"u0C9F","u0CC8","u0CB2","u0CB0","u0CCD">>
    >>],
    [title |-> "Mechanic", keywords |-> <<
       <<"m","e","c","h","a","n","i","c">>,
       <<"u092E","u0948","u0915","u0947","u0928","u093F","u0915">>,
       <<"u0BAE","u0BC6","u0B95","u0BCD","u0B95","u0BBE","u0BA9","u0BBF","u0B95","u0BCD">>,
       <<"u0C2E","u0C46","u0C15","u0C3E","u0C28","u0C3F","u0C15","u0C4D">>,
       <<"u0CAE","u0CC6","u0C95","u0CCD","u0CAF","u0CBE","u0CA8","u0CBF","u0C95","u0CCD">>
    >>],
    [title |-> "Beautician", keywords |-> <<
       <<"b","e","a","u","t","i","c","i","a","n">>,
       <<"b","e","a","u","t","y">>,
       <<"p","a","r","l","o","r">>,
       <<"u092C","u094D","u092F","u0942","u091F","u0940","u0936","u093F","u092F","u0928">>,
       <<"u0B85","u0BB4","u0B95","u0BC1">>,
       <<"u0C2C","u0C4D","u0C2F","u0C42","u0C1F","u0C40","u0C37","u0C3F","u0C2F","u0C28","u0C4D">>,
       <<"u0CAC","u0CCD","u0CAF","u0CC2","u0C9F","u0CBF">>
    >>]
  >>

title_matches(titles, text_lower) ==
  {i \in 1..Len(titles) :
     \E k \in 1..Len(titles[i].keywords) :
        contains(text_lower, lower(titles[i].keywords[k]))}

\* The title of the last entry that matched, "" if none did.
last_title(titles, matched) ==
  IF matched = {} THEN ""
  ELSE titles[CHOOSE i \in matched : \A h \in matched : i >= h].title

\* The title of the first entry that matched, "" if none did.
first_title(titles, matched) ==
  IF matched = {} THEN ""
  ELSE titles[CHOOSE i \in matched : \A h \in matched : i <= h].title

extract_job_title(t) ==
  first_title(job_titles, title_matches(job_titles, lower(t)))

\* list(set(xs)): the elements of a set in the order the interpreter's
\* hashing happens to give; any order can come out.
list_of_set(S) ==
  {f \in [1..Cardinality(S) -> S] : \A i, j \in 1..Cardinality(S) : i # j => f[i] # f[j]}

\* The record extract_from_utterance returns for the skills found and one
\* order of the categories.
utterance_record(t, found, categories) ==
  [text |-> t,
   skills |-> found,
   num_skills |-> Len(found),
   experience_years |-> extract_experience_years(t),
   job_title |-> extract_job_title(t),
   categories |-> categories,
   primary_category |-> IF categories # <<>> THEN categories[1] ELSE ""]

utterance_records(t, found) ==
  {utterance_record(t, found, categories) :
     categories \in list_of_set({found[i].category : i \in 1..Len(found)})}

\* extract_from_utterance: every record it may return (the order of the
\* categories is that of list(set(...))).
extract_from_utterance(t) == utterance_records(t, extract_skills(t))

\* ------------------------------------------------------------------------
\* SkillNormalizer
\* ------------------------------------------------------------------------

\* Largest r with r*r <= x.
RECURSIVE isqrt_between(_, _, _)
isqrt_between(x, lo, hi) ==
  IF lo = hi THEN lo
  ELSE LET mid == (lo + hi + 1) \div 2
       IN  IF mid * mid <= x THEN isqrt_between(x, mid, hi)
           ELSE isqrt_between(x, lo, mid - 1)

isqrt(x) == isqrt_between(x, 0, 46340)

\* The embeddings the sentence encoder can return: vectors with small
\* non-negative components.  Their cosines are 0, 0.447, 0.894 and 1.
Vectors == {<<1, 0>>, <<1, 2>>, <<0, 1>>}

dot(a, b) == a[1] * b[1] + a[2] * b[2]

\* util.cos_sim of two embeddings, in thousandths (the resolution the code
\* reports: round(score_val, 3)).
cos_sim_table ==
  [a \in Vectors, b \in Vectors |->
     isqrt((dot(a, b) * dot(a, b) * 1000000) \div (dot(a, a) * dot(b, b)))]

cos_sim(a, b) == cos_sim_table[a, b]

\* torch.topk(values, k): every index sequence it may return.  The k largest
\* values, largest first; which of several equal values comes first, or is
\* left out, is not specified.
topk(values, k) ==
  {idx \in [1..k -> 1..Len(values)] :
     /\ \A i, j \in 1..k : i # j => idx[i] # idx[j]
     /\ \A i \in 1..(k - 1) : values[idx[i]] >= values[idx[i + 1]]
     /\ \A n \in 1..Len(values) :
          (\A i \in 1..k : idx[i] # n) =>
             \A i \in 1..k : values[idx[i]] >= values[n]}

min2(a, b) == IF a <= b THEN a ELSE b

\* A normalize_skill that returns the top_k matches whatever their
\* similarity.
normalize_skill_unfiltered(self, skill_text, threshold, top_k) ==
  IF self.skill_taxonomy = <<>> THEN {<<>>}
  ELSE
    LET similarities == [i \in 1..Len(self.skill_embeddings) |->
                           cos_sim(self.model[skill_text], self.skill_embeddings[i])]
    IN  {[r \in 1..Len(idx) |->
            [original_skill |-> skill_text,
             normalized_skill |-> self.skill_taxonomy[idx[r]].skill_name,
             category |-> self.skill_taxonomy[idx[r]].category,
             similarity |-> similarities[idx[r]],
             skill_id |-> self.skill_taxonomy[idx[r]].skill_id]] :
           idx \in topk(similarities, min2(top_k, Len(similarities)))}

\* A normalize_skill whose threshold test is turned round: it keeps the
\* matches of similarity at most the threshold.
normalize_skill_at_most(self, skill_text, threshold, top_k) ==
  IF self.skill_taxonomy = <<>> THEN {<<>>}
  ELSE
    LET similarities == [i \in 1..Len(self.skill_embeddings) |->
                           cos_sim(self.model[skill_text], self.skill_embeddings[i])]
    IN  {SelectSeq([r \in 1..Len(idx) |->
                      [original_skill |-> skill_text,
                       normalized_skill |-> self.skill_taxonomy[idx[r]].skill_name,
                       category |-> self.skill_taxonomy[idx[r]].category,
                       similarity |-> similarities[idx[r]],
                       skill_id |-> self.skill_taxonomy[idx[r]].skill_id]],
                   LAMBDA m : m.similarity <= threshold) :
           idx \in topk(similarities, min2(top_k, Len(similarities)))}

\* SkillNormalizer.normalize_skill(skill_text, threshold, top_k) on the
\* normalizer self: the set of lists it may return (one list unless topk
\* meets a tie).
\* threshold and the similarities are in thousandths.
normalize_skill(self, skill_text, threshold, top_k) ==
  IF self.skill_taxonomy = <<>> THEN {<<>>}
  ELSE
    LET skill_embedding == self.model[skill_text]
        similarities == [i \in 1..Len(self.skill_embeddings) |->
                           cos_sim(skill_embedding, self.skill_embeddings[i])]
        match(i) == [original_skill |-> skill_text,
                     normalized_skill |-> self.skill_taxonomy[i].skill_name,
                     category |-> self.skill_taxonomy[i].category,
                     similarity |-> similarities[i],
                     skill_id |-> self.skill_taxonomy[i].skill_id]
    IN  {SelectSeq([r \in 1..Len(idx) |-> match(idx[r])],
                   LAMBDA m : m.similarity >= threshold) :
           idx \in topk(similarities, min2(top_k, Len(similarities)))}

\* ------------------------------------------------------------------------
\* TfidfVectorizer and cosine_similarity (scikit-learn), as JobRecommender
\* uses them
\* ------------------------------------------------------------------------

\* The words the vectorizer's analyzer (lower-casing, the default token
\* pattern) finds in each string of the corpora and of the requests.
tokens ==
  ( "Plumber" :> <<"plumber">>
 @@ "Electrician" :> <<"electrician">>
 @@ "Mechanic" :> <<"mechanic">>
 @@ "Plumbing" :> <<"plumbing">>
 @@ "Electrical Work" :> <<"electrical", "work">>
 @@ "Automotive Repair" :> <<"automotive", "repair">>
 @@ "Pipe Fitting" :> <<"pipe", "fitting">>
 @@ "Tap Repair" :> <<"tap", "repair">>
 @@ "Electrical Wiring" :> <<"electrical", "wiring">>
 @@ "Electrical Safety" :> <<"electrical", "safety">>
 @@ "Four Wheeler Repair" :> <<"four", "wheeler", "repair">>
 @@ "Learn Electrical Wiring - Complete Guide" :>
       <<"learn", "electrical", "wiring", "complete", "guide">>
 @@ "Learn Pipe Fitting - Complete Guide" :>
       <<"learn", "pipe", "fitting", "complete", "guide">>
 @@ "Learn Tap Repair - Complete Guide" :>
       <<"learn", "tap", "repair", "complete", "guide">> )

\* ' '.join(strings), analysed: the words of the joined text, in order.
RECURSIVE join_tokens(_)
join_tokens(strings) ==
  IF strings = <<>> THEN <<>>
  ELSE tokens[Head(strings)] \o join_tokens(Tail(strings))

\* The members of stop_words='english' among the words above.
english_stop_words == {"four"}

\* ngram_range=(1, 2): the terms of a word list, each with its count.
\* A term is a sequence of one or two adjacent words.
ngrams(words) ==
  {<<words[i]>> : i \in 1..Len(words)}
    \cup {<<words[i], words[i + 1]>> : i \in 1..(Len(words) - 1)}

term_count(term, words) ==
  Cardinality({i \in 1..(Len(words) - Len(term) + 1) :
                 \A j \in 1..Len(term) : words[i + j - 1] = term[j]})

RECURSIVE sum_over(_, _)
sum_over(f, S) ==
  IF S = {} THEN 0
  ELSE LET x == CHOOSE y \in S : TRUE
       IN  f[x] + sum_over(f, S \ {x})

\* 100 * ln(n), n = 1..8.
ln100 == <<0, 69, 110, 139, 161, 179, 195, 208>>

\* The analyzer of a vectorizer: stop words go before the n-grams are made.
analyze(words, stop_words) == SelectSeq(words, LAMBDA w : w \notin stop_words)

\* TfidfVectorizer(max_features, ngram_range=(1, 2), stop_words).fit(docs):
\* the vocabulary and each term's idf = ln((1 + n) / (1 + df)) + 1, in
\* hundredths.  A vocabulary larger than max_features would be cut to the
\* most frequent terms; the corpora here stay below it.
fit(docs, stop_words, max_features) ==
  LET analysed == [d \in 1..Len(docs) |-> analyze(docs[d], stop_words)]
      terms == UNION {ngrams(analysed[d]) : d \in 1..Len(docs)}
      vocabulary == IF Cardinality(terms) <= max_features THEN terms
                    ELSE CHOOSE V \in SUBSET terms :
                           /\ Cardinality(V) = max_features
                           /\ \A t \in V, u \in terms \ V :
                                sum_over([d \in 1..Len(docs) |-> term_count(t, analysed[d])],
                                         1..Len(docs))
                                >= sum_over([d \in 1..Len(docs) |-> term_count(u, analysed[d])],
                                            1..Len(docs))
      df(t) == Cardinality({d \in 1..Len(docs) : t \in ngrams(analysed[d])})
  IN  [stop_words |-> stop_words,
       idf |-> [t \in vocabulary |->
                  100 + ln100[1 + Len(docs)] - ln100[1 + df(t)]]]

round_up(x, floor) == IF floor * floor = x THEN floor ELSE floor + 1

\* The smallest r with r * r >= x.
ceil_sqrt(x) == round_up(x, isqrt(x))

\* tf * idf of the analysed words over the fitted vocabulary.
tfidf(idf, analysed) == [t \in DOMAIN idf |-> term_count(t, analysed) * idf[t]]

sum_of_squares(weight) ==
  sum_over([t \in DOMAIN weight |-> weight[t] * weight[t]], DOMAIN weight)

\* norm='l2': the weights scaled to unit length, in thousandths; the zero
\* vector stays zero.
scale(weight, length) ==
  [t \in DOMAIN weight |->
     IF length = 0 THEN 0 ELSE (weight[t] * 1000) \div length]

l2_normalize(weight) == scale(weight, ceil_sqrt(sum_of_squares(weight)))

\* vectorizer.transform([words])[0]: tf * idf over the fitted vocabulary,
\* scaled to unit length (norm='l2'), in thousandths.  Terms outside the
\* vocabulary are ignored; a text with none of its terms is the zero vector.
transform(fitted, words) ==
  l2_normalize(tfidf(fitted.idf, analyze(words, fitted.stop_words)))

\* cosine_similarity(u, v) of two vectors over the same vocabulary, in
\* millionths.
cosine_similarity(u, v) ==
  sum_over([t \in DOMAIN u |-> u[t] * v[t]], DOMAIN u)

\* round(score, 3), in thousandths, and round(score * 100, 1), in tenths of
\* a percent: the same number.
round3(score) == (score + 500) \div 1000

\* ------------------------------------------------------------------------
\* JobRecommender
\* ------------------------------------------------------------------------

jobs_max_features == 500

learning_max_features == 300

Chennai == <<"C","h","e","n","n","a","i">>

Mumbai == <<"M","u","m","b","a","i">>

NaviMumbai == <<"N","a","v","i"," ","M","u","m","b","a","i">>

\* Rows of datasets/job_listings.csv, as generate_job_listings writes them;
\* required_skills is the list the file joins with ", ".  Jobs 1 and 2
\* differ in location only.
job_rows ==
  <<
    [job_id |-> 1, job_title |-> "Plumber", category |-> "Plumbing",
     required_skills |-> <<"Pipe Fitting", "Tap Repair">>,
     experience_required |-> "1-3 years", salary_range |-> "12000-20000",
     location |-> Chennai, job_type |-> "Full-time"],
    [job_id |-> 2, job_title |-> "Plumber", category |-> "Plumbing",
     required_skills |-> <<"Pipe Fitting", "Tap Repair">>,
     experience_required |-> "1-3 years", salary_range |-> "12000-20000",
     location |-> Mumbai, job_type |-> "Full-time"],
    [job_id |-> 3, job_title |-> "Electrician", category |-> "Electrical Work",
     required_skills |-> <<"Electrical Wiring">>,
     experience_required |-> "0-1 years", salary_range |-> "10000-18000",
     location |-> Chennai, job_type |-> "Contract"],
    [job_id |-> 4, job_title |-> "Mechanic", category |-> "Automotive Repair",
     required_skills |-> <<"Four Wheeler Repair">>,
     experience_required |-> "3-5 years", salary_range |-> "15000-25000",
     location |-> NaviMumbai, job_type |-> "Daily Wage"]
  >>

\* Rows of datasets/learning_resources.csv, as generate_learning_resources
\* writes them.
learning_rows ==
  <<
    [resource_id |-> 1, title |-> "Learn Electrical Wiring - Complete Guide",
     skill_covered |-> "Electrical Wiring", category |-> "Electrical Work",
     resource_type |-> "Course", platform |-> "YouTube", language |-> "Hindi",
     duration |-> "10 hours", difficulty |-> "Beginner", rating |-> 45,
     is_free |-> TRUE],
    [resource_id |-> 2, title |-> "Learn Pipe Fitting - Complete Guide",
     skill_covered |-> "Pipe Fitting", category |-> "Plumbing",
     resource_type |-> "Workshop", platform |-> "Udemy", language |-> "Tamil",
     duration |-> "30 mins", difficulty |-> "Advanced", rating |-> 40,
     is_free |-> FALSE],
    [resource_id |-> 3, title |-> "Learn Tap Repair - Complete Guide",
     skill_covered |-> "Tap Repair", category |-> "Plumbing",
     resource_type |-> "Video Tutorial", platform |-> "YouTube",
     language |-> "English", duration |-> "20 mins",
     difficulty |-> "Beginner", rating |-> 38, is_free |-> TRUE]
  >>

\* The words of a job's combined_text:
\* job_title + ' ' + category + ' ' + required_skills.
combined_text(job) ==
  tokens[job.job_title] \o tokens[job.category] \o join_tokens(job.required_skills)

\* _create_job_vectors: the vectorizer fitted on the job corpus and the job
\* vectors.
create_job_vectors(jobs) ==
  LET texts == [i \in 1..Len(jobs) |-> combined_text(jobs[i])]
      fitted == fit(texts, english_stop_words, jobs_max_features)
  IN  [vectorizer |-> fitted,
       job_vectors |-> [i \in 1..Len(jobs) |-> transform(fitted, texts[i])]]

\* _create_worker_vector
create_worker_vector(self, worker_skills) ==
  transform(self.vectorizer, join_tokens(worker_skills))

\* Series.str.contains(pat, case=False, na=False): pat is searched as a
\* regular expression, ignoring case.  Of the pattern syntax, "." (any
\* character) is modelled; every other character here stands for itself.
regex_search(subject, pattern) ==
  \E i \in 0..(Len(subject) - Len(pattern)) :
    \A j \in 1..Len(pattern) :
       pattern[j] = "." \/ subject[i + j] = pattern[j]

str_contains(s, pat) == regex_search(lower(s), lower(pat))

\* DataFrame.nlargest(n, column), column[i] being the value of rows[i]: the
\* n rows with the largest values, largest first; rows of equal value stay
\* in their original order (keep='first').
nlargest(rows, n, column) ==
  LET ordered == sorted_reverse(rows, column)
  IN  SubSeq(ordered, 1, min2(n, Len(ordered)))

\* A recommend_jobs that returns the first top_k jobs of the location in
\* corpus order, unsorted.
recommend_jobs_unsorted(self, worker_skills, location, top_k) ==
  IF self.jobs_df = <<>> \/ Len(worker_skills) = 0 THEN <<>>
  ELSE
    LET worker_vector == create_worker_vector(self, worker_skills)
        in_location ==
          SelectSeq([i \in 1..Len(self.jobs_df) |->
                       self.jobs_df[i] @@
                       [match_score |->
                          round3(cosine_similarity(worker_vector, self.job_vectors[i])),
                        match_percentage |->
                          round3(cosine_similarity(worker_vector, self.job_vectors[i]))]],
                    LAMBDA r : location = <<>> \/ str_contains(r.location, location))
    IN  SubSeq(in_location, 1, min2(top_k, Len(in_location)))

\* jobs_with_scores: every job of the corpus with its match_score, the
\* cosine similarity of the worker vector and the job vector.
score_jobs(self, worker_vector) ==
  [i \in 1..Len(self.jobs_df) |->
     [job |-> self.jobs_df[i],
      match_score |-> cosine_similarity(worker_vector, self.job_vectors[i])]]

\* A location filter that also drops the jobs of score 0.
filter_location_and_zero_scores(jobs_with_scores, location) ==
  SelectSeq(jobs_with_scores,
            LAMBDA r : /\ r.match_score > 0
                       /\ (location = <<>> \/ str_contains(r.job.location, location)))

\* The location filter.  No location (None or '') is the empty string.
filter_location(jobs_with_scores, location) ==
  IF location # <<>>
  THEN SelectSeq(jobs_with_scores, LAMBDA r : str_contains(r.job.location, location))
  ELSE jobs_with_scores

match_scores(rows) == [i \in 1..Len(rows) |-> rows[i].match_score]

\* The dict recommend_jobs returns for a job.
job_recommendation(row) ==
  [job_id |-> row.job.job_id,
   job_title |-> row.job.job_title,
   category |-> row.job.category,
   required_skills |-> row.job.required_skills,
   experience_required |-> row.job.experience_required,
   salary_range |-> row.job.salary_range,
   location |-> row.job.location,
   job_type |-> row.job.job_type,
   match_score |-> round3(row.match_score),
   match_percentage |-> round3(row.match_score)]

job_recommendations_of(top_jobs) ==
  [i \in 1..Len(top_jobs) |-> job_recommendation(top_jobs[i])]

top_jobs_of(in_location, top_k) ==
  job_recommendations_of(nlargest(in_location, top_k, match_scores(in_location)))

\* cosine_similarity(worker_vector, job_vectors)[0]; sklearn raises
\* ValueError when the two have different numbers of features.
similarities_or_error(worker_vector, rows) ==
  IF \E i \in 1..Len(rows) :
        Cardinality(DOMAIN rows[i]) # Cardinality(DOMAIN worker_vector)
  THEN raised("ValueError")
  ELSE returned([i \in 1..Len(rows) |-> cosine_similarity(worker_vector, rows[i])])

\* jobs_df.copy() with the column match_score = similarities; pandas raises
\* ValueError when the lengths differ.
with_scores_or_error(jobs, similarities) ==
  IF Len(jobs) # Len(similarities) THEN raised("ValueError")
  ELSE returned([i \in 1..Len(jobs) |->
                   [job |-> jobs[i], match_score |-> similarities[i]]])

\* The dict save_model pickles, for a recommender built on jobs; load_model
\* reads it back.
model_data_of(jobs) ==
  [vectorizer |-> create_job_vectors(jobs).vectorizer,
   job_vectors |-> create_job_vectors(jobs).job_vectors,
   jobs_df |-> jobs]

\* JobRecommender.recommend_jobs(worker_skills, location, top_k) on the
\* recommender self.
recommend_jobs(self, worker_skills, location, top_k) ==
  IF self.jobs_df = <<>> \/ Len(worker_skills) = 0 THEN <<>>
  ELSE top_jobs_of(filter_location(
                     score_jobs(self, create_worker_vector(self, worker_skills)),
                     location),
                   top_k)

\* The words of a resource's text:
\* title + ' ' + skill_covered + ' ' + category.
learning_text(resource) ==
  tokens[resource.title] \o tokens[resource.skill_covered] \o tokens[resource.category]

learning_texts_of(learning) ==
  [i \in 1..Len(learning) |-> learning_text(learning[i])]

similarities_to(learning_vectorizer, learning_texts, search_vector) ==
  [i \in 1..Len(learning_texts) |->
     cosine_similarity(search_vector,
                       transform(learning_vectorizer, learning_texts[i]))]

search_similarities(learning_vectorizer, learning_texts, search_skills) ==
  similarities_to(learning_vectorizer, learning_texts,
                  transform(learning_vectorizer, join_tokens(search_skills)))

fit_and_compare(learning_texts, search_skills) ==
  search_similarities(fit(learning_texts, {}, learning_max_features),
                      learning_texts, search_skills)

\* The similarities recommend_learning computes: a vectorizer fitted on the
\* learning corpus at every call, the search skills joined into one text.
learning_similarities(learning, search_skills) ==
  fit_and_compare(learning_texts_of(learning), search_skills)

\* The dict recommend_learning returns for a resource.
learning_recommendation(row) ==
  [resource_id |-> row.resource.resource_id,
   title |-> row.resource.title,
   skill_covered |-> row.resource.skill_covered,
   resource_type |-> row.resource.resource_type,
   platform |-> row.resource.platform,
   language |-> row.resource.language,
   duration |-> row.resource.duration,
   difficulty |-> row.resource.difficulty,
   rating |-> row.resource.rating,
   is_free |-> row.resource.is_free,
   relevance_score |-> round3(row.relevance_score)]

learning_recommendations_of(top_resources) ==
  [i \in 1..Len(top_resources) |-> learning_recommendation(top_resources[i])]

\* learning_df with the relevance_score column.
with_relevance(learning, similarities) ==
  [i \in 1..Len(learning) |->
     [resource |-> learning[i], relevance_score |-> similarities[i]]]

\* The top_k resources by relevance_score, and the column left behind.
top_resources_of(learning, similarities, top_k) ==
  [result |->
     learning_recommendations_of(
       nlargest(with_relevance(learning, similarities), top_k, similarities)),
   relevance_score |-> similarities]

\* JobRecommender.recommend_learning(worker_skills, target_skills, top_k) on
\* the recommender self: the returned list and the relevance_score column
\* it leaves on self.learning_df.  No target_skills (None or []) is the
\* empty list.
recommend_learning(self, worker_skills, target_skills, top_k) ==
  IF self.learning_df = <<>>
  THEN [result |-> <<>>, relevance_score |-> self.relevance_score]
  ELSE top_resources_of(self.learning_df,
                        learning_similarities(self.learning_df,
                                              IF target_skills # <<>>
                                              THEN target_skills
                                              ELSE worker_skills),
                        top_k)

\* The characters of the job titles of the corpus.
title_text ==
  ( "Plumber" :> <<"P","l","u","m","b","e","r">>
 @@ "Electrician" :> <<"E","l","e","c","t","r","i","c","i","a","n">>
 @@ "Mechanic" :> <<"M","e","c","h","a","n","i","c">> )

\* The required_skills cell of a row of jobs_df: ", ".join(required_skills)
\* as generate_job_listings writes it, a list of pieces of text in which
\* ", " is a piece of its own.  read_csv gives NaN for an empty field.
RECURSIVE join_skills(_)
join_skills(names) ==
  IF names = <<>> THEN <<>>
  ELSE IF Len(names) = 1 THEN <<names[1]>>
  ELSE <<names[1], ", ">> \o join_skills(Tail(names))

required_skills_cell(job) ==
  IF job.required_skills = <<>> THEN [isna |-> TRUE, text |-> <<>>]
  ELSE [isna |-> FALSE, text |-> join_skills(job.required_skills)]

\* The text between two separators: one piece, or "" when there is none.
piece_text(pieces) == IF pieces = <<>> THEN "" ELSE pieces[1]

\* str.split(', ') of a cell: the texts between the separators; the empty
\* text splits into [''].
RECURSIVE split(_, _)
split(cell, current) ==
  IF cell = <<>> THEN <<piece_text(current)>>
  ELSE IF Head(cell) = ", " THEN <<piece_text(current)>> \o split(Tail(cell), <<>>)
  ELSE split(Tail(cell), Append(current, Head(cell)))

set_of(list) == {list[i] : i \in 1..Len(list)}

\* round(matched / required * 100, 1), in tenths of a percent.
round1(matched, required) == (2000 * matched + required) \div (2 * required)

\* The rows of jobs_df whose job_title matches
\* str.contains(target_job_title, case=False, na=False).
matching_jobs_of(jobs, target_job_title) ==
  SelectSeq(jobs, LAMBDA job : str_contains(title_text[job.job_title], target_job_title))

\* The dict get_skill_gap_analysis returns, for one order of each list.
gap_report(top_job, required_skills, matched_skills, missing_skills, extra_skills) ==
  [target_job |-> top_job.job_title,
   category |-> top_job.category,
   total_required_skills |-> Cardinality(required_skills),
   matched_skills |-> matched_skills,
   missing_skills |-> missing_skills,
   extra_skills |-> extra_skills,
   match_percentage |->
     IF required_skills # {} THEN round1(Len(matched_skills), Cardinality(required_skills))
     ELSE 0]

\* The reports for a top job's required skills and the worker's skills: the
\* three lists come from list(set), in any order.
gap_reports(top_job, required_skills, current_skills) ==
  {returned(gap_report(top_job, required_skills, matched, missing, extra)) :
     matched \in list_of_set(current_skills \cap required_skills),
     missing \in list_of_set(required_skills \ current_skills),
     extra \in list_of_set(current_skills \ required_skills)}

\* The analysis of the top job: a float (NaN) has no split.
analyse_top_job(top_job, cell, worker_skills) ==
  IF cell.isna THEN {raised("AttributeError")}
  ELSE gap_reports(top_job, set_of(split(cell.text, <<>>)), set_of(worker_skills))

\* An analysis that takes the last matching row instead of the first.
analyse_last_matching_job(matching_jobs, worker_skills) ==
  IF matching_jobs = <<>>
  THEN {returned([error |-> "No jobs found for that title"])}
  ELSE analyse_top_job(matching_jobs[Len(matching_jobs)],
                       required_skills_cell(matching_jobs[Len(matching_jobs)]),
                       worker_skills)

\* matching_jobs.empty, and the analysis of matching_jobs.iloc[0].
analyse_matching_jobs(matching_jobs, worker_skills) ==
  IF matching_jobs = <<>>
  THEN {returned([error |-> "No jobs found for that title"])}
  ELSE analyse_top_job(matching_jobs[1], required_skills_cell(matching_jobs[1]),
                       worker_skills)

\* JobRecommender.get_skill_gap_analysis(worker_skills, target_job_title) on
\* the recommender self: the outcomes it may have.  The frame of a missing
\* job file, pd.DataFrame(), has no job_title column.
get_skill_gap_analysis(self, worker_skills, target_job_title) ==
  IF self.jobs_df = <<>> THEN {raised("KeyError")}
  ELSE analyse_matching_jobs(matching_jobs_of(self.jobs_df, target_job_title),
                             worker_skills)

\* ------------------------------------------------------------------------
\* Inputs
\* ------------------------------------------------------------------------

\* The phrases utterances are made of: "general repair", "Car Repair",
\* "driver", "car driving", "Pipe Fitting", "Tap Repair", the Hindi word for
\* driver (a Vehicle Driving keyword without "drive" in it) and "5 years".
phrases ==
  <<
    <<"g","e","n","e","r","a","l"," ","r","e","p","a","i","r">>,
    <<"C","a","r"," ","R","e","p","a","i","r">>,
    <<"d","r","i","v","e","r">>,
    <<"c","a","r"," ","d","r","i","v","i","n","g">>,
    <<"P","i","p","e"," ","F","i","t","t","i","n","g">>,
    <<"T","a","p"," ","R","e","p","a","i","r">>,
    <<"u0921","u094D","u0930","u093E","u0907","u0935","u0930">>,
    <<"5"," ","y","e","a","r","s">>,
    <<"3"," ","y","r","s">>,
    <<"7"," ","u0938","u093E","u0932">>,
    <<"1","2">>,
    <<"Y","e","a","r","s">>,
    <<"E","L","E","C","T","R","I","C","I","A","N">>,
    <<"p","l","u","m","b","i","n","g">>,
    <<"c","a","r"," "," ","r","e","p","a","i","r">>,
    <<"c","a","r","\t","r","e","p","a","i","r">>,
    <<"S","c","r","e","e","n","\n","R","e","p","l","a","c","e","m","e","n","t">>
  >>

RECURSIVE join(_)
join(words) ==
  IF words = <<>> THEN <<>>
  ELSE IF Len(words) = 1 THEN phrases[words[1]]
  ELSE phrases[words[1]] \o <<" ">> \o join(Tail(words))

\* The sequences of at most n different elements of S.
arrangements(S, n) ==
  UNION {{f \in [1..k -> S] : \A i, j \in 1..k : i # j => f[i] # f[j]} :
           k \in 0..n}

\* The utterances given to extract_skills: up to MaxPhrases different ones
\* of the first seven phrases, separated by single spaces.
Utterances == {join(w) : w \in arrangements(1..7, MaxPhrases)}

\* Utterances whose words are separated by more than a single space: up to
\* MaxPhrases different ones of "Car Repair", "car driving", "car  repair"
\* (two spaces), "car<TAB>repair" and "Screen<NEWLINE>Replacement".
SpacedUtterances == {join(w) : w \in arrangements({2, 4, 15, 16, 17}, MaxPhrases)}

\* The utterances given to the pipeline: up to MaxPipelinePhrases different
\* ones of "Pipe Fitting", "Tap Repair" and "5 years".
PipelineTexts == {join(w) : w \in arrangements({5, 6, 8}, MaxPipelinePhrases)}

\* The utterances given to extract_experience_years and extract_job_title:
\* up to MaxFieldPhrases different ones of "driver", its Hindi keyword,
\* "5 years", "3 yrs", the Hindi "7 years", "12", "Years", "ELECTRICIAN" and
\* "plumbing".
FieldTexts == {join(w) : w \in arrangements({3, 7} \cup (8..14), MaxFieldPhrases)}

\* The texts the sentence encoder is asked to embed: the taxonomy's skill
\* names and the raw skills of the pipeline's utterances.
EncodedTexts ==
  {skill_taxonomy[i].skill_name : i \in 1..Len(skill_taxonomy)}
    \cup {"Pipe Fitting", "Tap Repair"}

\* Audio files: whether the path exists, its suffix, and what Whisper makes
\* of the file: "error" (model.transcribe raises) or the text it returns,
\* which starts with a space, and the language it detects.
AudioFiles ==
  [exists : BOOLEAN, suffix : {<<".","t","x","t">>, <<".","W","A","V">>},
   speech : {"error"}, language : {"unknown"}]
    \cup [exists : {TRUE}, suffix : {<<".","W","A","V">>},
          speech : {<<" ">> \o t : t \in PipelineTexts}, language : {"en", "hi"}]

\* The worker_info given to create_worker_profile: none, or a name.
WorkerInfos == {<<>>, [name |-> "Ravi"]}

\* The skill lists given to the recommender.
SkillLists ==
  arrangements({"Tap Repair", "Electrical Wiring", "Electrical Safety"}, MaxSkills)

\* The locations asked for: none, "chennai", "Mumbai" and ".".
Locations == {<<>>, <<"c","h","e","n","n","a","i">>, Mumbai, <<".">>}

\* The job files the recommender may be built on: no file (an empty frame)
\* or up to MaxJobs of the rows, in any order.
JobFiles == arrangements(1..Len(job_rows), MaxJobs)

jobs_of(file) == [i \in 1..Len(file) |-> job_rows[file[i]]]

\* The rows the taxonomy files of the normalizer are made of: the rows of
\* skill_taxonomy and one more.
taxonomy_rows ==
  skill_taxonomy
    \o <<[skill_id |-> 18, skill_name |-> "Tap Repair", category |-> "Plumbing"]>>

\* The taxonomy files the normalizer may be built on: no file (an empty
\* frame) or the first rows of taxonomy_rows.
TaxonomyFiles == {SubSeq(taxonomy_rows, 1, n) : n \in 0..Len(taxonomy_rows)}

\* The texts normalize_skill is asked about: the taxonomy names and a raw
\* skill that is no taxonomy name.
NormalizerTexts == EncodedTexts \cup {"fan fixing"}

\* The thresholds asked for, in thousandths: 0.3, 0.5 and 0.9.
Thresholds == {300, 500, 900}

\* A row of the job file whose required_skills field is empty.
job_without_skills ==
  [job_id |-> 5, job_title |-> "Electrician", category |-> "Electrical Work",
   required_skills |-> <<>>,
   experience_required |-> "0-1 years", salary_range |-> "8000-14000",
   location |-> Mumbai, job_type |-> "Part-time"]

\* The rows the job files of the skill-gap analysis are made of: a Plumber,
\* an Electrician and a Mechanic of job_rows and the job without skills.
gap_job_rows == <<job_rows[1], job_rows[3], job_rows[4], job_without_skills>>

\* The job files get_skill_gap_analysis is asked about: no file, or up to
\* MaxJobs of the rows, in any order.
GapJobFiles == arrangements(1..Len(gap_job_rows), MaxJobs)

gap_jobs_of(file) == [i \in 1..Len(file) |-> gap_job_rows[file[i]]]

\* The target titles asked for: "plumb", "Electrician", "ic" (in Electrician
\* and in Mechanic), "Carpenter" (in no title), "" and ".".
TargetTitles ==
  {<<"p","l","u","m","b">>, title_text["Electrician"], <<"i","c">>,
   <<"C","a","r","p","e","n","t","e","r">>, <<>>, <<".">>}

\* The worker skill lists of the skill-gap analysis: up to MaxSkills
\* different skills, or one skill twice.
GapSkillLists ==
  arrangements({"Pipe Fitting", "Electrical Wiring", "Welding"}, MaxSkills)
    \cup {<<"Pipe Fitting", "Pipe Fitting">>}

\* ------------------------------------------------------------------------
\* Construction and calls
\* ------------------------------------------------------------------------

extractor_vars == <<utterance, skills_found>>

normalizer_vars == <<normalizer_taxonomy, encode, skill_embeddings>>

recommender_vars == <<jobs_df, vectorizer, job_vectors, learning_df, relevance_score>>

pipeline_vars == <<audio_processor, transcription_result, calls>>

thread_vars == <<pc, locals>>

vars == <<op, request, outcome, extractor_vars, normalizer_vars,
          recommender_vars, pipeline_vars, thread_vars, db>>

\* The SkillNormalizer, the JobRecommender and the SkillSyncPipeline, as
\* records of their fields.
skill_normalizer ==
  [skill_taxonomy |-> normalizer_taxonomy, model |-> encode,
   skill_embeddings |-> skill_embeddings]

job_recommender ==
  [jobs_df |-> jobs_df, vectorizer |-> vectorizer, job_vectors |-> job_vectors,
   learning_df |-> learning_df, relevance_score |-> relevance_score]

pipeline ==
  [audio_processor |-> audio_processor, skill_normalizer |-> skill_normalizer,
   job_recommender |-> job_recommender]

\* TfidfVectorizer(...) before fit.
unfitted == [stop_words |-> english_stop_words, idf |-> <<>>]

\* JobRecommender.__init__ on a job file and a learning file.
InitRecommender(jobs, learning) ==
  /\ jobs_df = jobs
  /\ learning_df = learning
  /\ relevance_score = <<>>
  /\ IF jobs # <<>>
     THEN /\ vectorizer = create_job_vectors(jobs).vectorizer
          /\ job_vectors = create_job_vectors(jobs).job_vectors
     ELSE /\ vectorizer = unfitted
          /\ job_vectors = <<>>

\* SkillNormalizer.__init__ on a taxonomy file, with a sentence encoder:
\* _load_taxonomy and _create_skill_embeddings.
InitNormalizer(taxonomy, model) ==
  /\ normalizer_taxonomy = taxonomy
  /\ encode = model
  /\ skill_embeddings =
       [i \in 1..Len(taxonomy) |-> model[taxonomy[i].skill_name]]

\* SkillSyncDB.init_database on a new file: the tables, without rows.
empty_db ==
  [worker_profiles |-> <<>>, job_applications |-> <<>>,
   learning_progress |-> <<>>, analytics |-> <<>>]

Idle ==
  /\ db = empty_db
  /\ op = "none"
  /\ request = <<>>
  /\ outcome = no_outcome
  /\ transcription_result = no_outcome
  /\ calls = <<>>
  /\ utterance = <<>>
  /\ skills_found = <<>>

\* No call has been made, and there are no concurrent threads.
NoCall ==
  /\ Idle
  /\ pc = <<>>
  /\ locals = <<>>

\* ------------------------------------------------------------------------
\* MultilingualSkillExtractor on its own
\* ------------------------------------------------------------------------

InitExtract ==
  /\ NoCall
  /\ audio_processor = "none"
  /\ InitNormalizer(skill_taxonomy, [t \in EncodedTexts |-> <<1, 0>>])
  /\ InitRecommender(<<>>, <<>>)

\* MultilingualSkillExtractor.extract_skills(text)
ExtractSkills ==
  /\ op = "none"
  /\ \E t \in Utterances \cup SpacedUtterances :
       /\ op' = "extract_skills"
       /\ request' = t
       /\ utterance' = t
       /\ skills_found' = extract_skills(t)
       /\ outcome' = returned(skills_found')
  /\ UNCHANGED <<normalizer_vars, recommender_vars, pipeline_vars, thread_vars, db>>

NextExtract == ExtractSkills

SpecExtract == InitExtract /\ [][NextExtract]_vars

\* MultilingualSkillExtractor.extract_experience_years(text)
ExtractExperienceYears ==
  /\ op = "none"
  /\ \E t \in FieldTexts :
       /\ op' = "extract_experience_years"
       /\ request' = t
       /\ utterance' = t
       /\ outcome' = returned(extract_experience_years(t))
  /\ UNCHANGED <<skills_found, normalizer_vars, recommender_vars, pipeline_vars, thread_vars, db>>

\* MultilingualSkillExtractor.extract_job_title(text)
ExtractJobTitle ==
  /\ op = "none"
  /\ \E t \in FieldTexts :
       /\ op' = "extract_job_title"
       /\ request' = t
       /\ utterance' = t
       /\ outcome' = returned(extract_job_title(t))
  /\ UNCHANGED <<skills_found, normalizer_vars, recommender_vars, pipeline_vars, thread_vars, db>>

NextFields == ExtractExperienceYears \/ ExtractJobTitle

SpecFields == InitExtract /\ [][NextFields]_vars

\* ------------------------------------------------------------------------
\* JobRecommender on its own
\* ------------------------------------------------------------------------

InitRecommend ==
  /\ NoCall
  /\ audio_processor = "none"
  /\ InitNormalizer(skill_taxonomy, [t \in EncodedTexts |-> <<1, 0>>])
  /\ \E file \in JobFiles, learning \in {<<>>, learning_rows} :
       InitRecommender(jobs_of(file), learning)

\* JobRecommender.recommend_jobs(worker_skills, location, top_k)
RecommendJobs ==
  /\ op = "none"
  /\ \E worker_skills \in SkillLists, location \in Locations, top_k \in 1..MaxTopK :
       /\ op' = "recommend_jobs"
       /\ request' = [worker_skills |-> worker_skills, location |-> location,
                      top_k |-> top_k]
       /\ outcome' = returned(recommend_jobs(job_recommender, worker_skills,
                                             location, top_k))
  /\ UNCHANGED <<extractor_vars, normalizer_vars, recommender_vars, pipeline_vars, thread_vars, db>>

\* JobRecommender.recommend_learning(worker_skills, target_skills, top_k)
RecommendLearning ==
  /\ op = "none"
  /\ \E worker_skills \in {<<>>, <<"Tap Repair">>}, target_skills \in SkillLists,
        top_k \in 1..MaxTopK :
       LET r == recommend_learning(job_recommender, worker_skills,
                                   target_skills, top_k)
       IN  /\ op' = "recommend_learning"
           /\ request' = [worker_skills |-> worker_skills,
                          target_skills |-> target_skills, top_k |-> top_k]
           /\ outcome' = returned(r.result)
           /\ relevance_score' = r.relevance_score
  /\ UNCHANGED <<extractor_vars, normalizer_vars, jobs_df, vectorizer,
                 job_vectors, learning_df, pipeline_vars, thread_vars, db>>

NextRecommend == RecommendJobs \/ RecommendLearning

SpecRecommend == InitRecommend /\ [][NextRecommend]_vars

\* ------------------------------------------------------------------------
\* A request running concurrently with a reload
\* ------------------------------------------------------------------------

\* The job files of the old and the new snapshot: one row, or two.
ReloadFiles == {<<3>>, <<1, 3>>}

\* The taxonomy files of the old and the new snapshot: two rows, or three.
ReloadTaxonomies == {SubSeq(taxonomy_rows, 1, n) : n \in 2..3}

\* The encoder of the reload runs.
reload_model ==
  ( "Electrical Wiring" :> <<1, 0>> @@ "Pipe Fitting" :> <<1, 2>>
 @@ "Tap Repair" :> <<0, 1>> )

\* The dict save_embeddings pickles, for a normalizer built on taxonomy.
embeddings_data_of(taxonomy) ==
  [skill_embeddings |-> [i \in 1..Len(taxonomy) |-> reload_model[taxonomy[i].skill_name]],
   skill_taxonomy |-> taxonomy]

SavedModels == {model_data_of(jobs_of(file)) : file \in ReloadFiles}

SavedEmbeddings == {embeddings_data_of(taxonomy) : taxonomy \in ReloadTaxonomies}

ReloadThreads == {"recommend_jobs", "load_model", "normalize_skill", "load_embeddings"}

\* A thread that has not read anything yet.
no_locals == [read |-> <<>>, outcome |-> no_outcome]

InitReload ==
  /\ Idle
  /\ audio_processor = "none"
  /\ \E taxonomy \in ReloadTaxonomies : InitNormalizer(taxonomy, reload_model)
  /\ \E file \in ReloadFiles : InitRecommender(jobs_of(file), <<>>)
  /\ pc = [t \in ReloadThreads |-> "start"]
  /\ locals = [t \in ReloadThreads |-> no_locals]

\* What is common to the steps of a thread: its position and its locals
\* change, the others' do not.
step(t, label, new_locals) ==
  /\ pc' = [pc EXCEPT ![t] = label]
  /\ locals' = [locals EXCEPT ![t] = new_locals]
  /\ UNCHANGED <<op, request, outcome, extractor_vars, pipeline_vars, db>>

\* The thread read self.<field>, which held value.
having_read(t, field, value) ==
  [locals[t] EXCEPT !.read = Append(@, <<field, value>>)]

\* recommend_jobs, line 118: the guard reads self.jobs_df.
RecommendJobsGuard ==
  /\ pc["recommend_jobs"] = "start"
  /\ \E worker_skills \in {<<>>, <<"Electrical Wiring">>} :
       IF jobs_df = <<>> \/ Len(worker_skills) = 0
       THEN step("recommend_jobs", "done",
                 [having_read("recommend_jobs", "jobs_df", jobs_df)
                    EXCEPT !.outcome = returned(<<>>)])
       ELSE step("recommend_jobs", "vectorize",
                 having_read("recommend_jobs", "jobs_df", jobs_df)
                   @@ [worker_skills |-> worker_skills])
  /\ UNCHANGED <<normalizer_vars, recommender_vars>>

\* recommend_jobs, line 122: _create_worker_vector reads self.vectorizer.
RecommendJobsVectorize ==
  /\ pc["recommend_jobs"] = "vectorize"
  /\ step("recommend_jobs", "similarities",
          having_read("recommend_jobs", "vectorizer", vectorizer)
            @@ [worker_vector |->
                  create_worker_vector(job_recommender,
                                       locals["recommend_jobs"].worker_skills)])
  /\ UNCHANGED <<normalizer_vars, recommender_vars>>

\* recommend_jobs, line 125: cosine_similarity reads self.job_vectors.
RecommendJobsSimilarities ==
  /\ pc["recommend_jobs"] = "similarities"
  /\ LET similarities ==
           similarities_or_error(locals["recommend_jobs"].worker_vector, job_vectors)
         read == having_read("recommend_jobs", "job_vectors", job_vectors)
     IN  IF similarities.kind = "raise"
         THEN step("recommend_jobs", "done", [read EXCEPT !.outcome = similarities])
         ELSE step("recommend_jobs", "rank",
                   read @@ [similarities |-> similarities.value])
  /\ UNCHANGED <<normalizer_vars, recommender_vars>>

\* recommend_jobs, lines 128-156: self.jobs_df.copy(), the scores, the
\* ranking and the result.
RecommendJobsRank ==
  /\ pc["recommend_jobs"] = "rank"
  /\ LET jobs_with_scores ==
           with_scores_or_error(jobs_df, locals["recommend_jobs"].similarities)
         read == having_read("recommend_jobs", "jobs_df", jobs_df)
     IN  step("recommend_jobs", "done",
              [read EXCEPT !.outcome =
                 IF jobs_with_scores.kind = "raise" THEN jobs_with_scores
                 ELSE returned(top_jobs_of(jobs_with_scores.value, MaxTopK))])
  /\ UNCHANGED <<normalizer_vars, recommender_vars>>

\* load_model, lines 284-285: pickle.load.
LoadModelUnpickle ==
  /\ pc["load_model"] = "start"
  /\ \E model_data \in SavedModels :
       step("load_model", "vectorizer", locals["load_model"] @@ [model_data |-> model_data])
  /\ UNCHANGED <<normalizer_vars, recommender_vars>>

\* load_model, line 287.
LoadModelVectorizer ==
  /\ pc["load_model"] = "vectorizer"
  /\ vectorizer' = locals["load_model"].model_data.vectorizer
  /\ step("load_model", "job_vectors", locals["load_model"])
  /\ UNCHANGED <<normalizer_vars, jobs_df, job_vectors, learning_df, relevance_score>>

\* load_model, line 288.
LoadModelJobVectors ==
  /\ pc["load_model"] = "job_vectors"
  /\ job_vectors' = locals["load_model"].model_data.job_vectors
  /\ step("load_model", "jobs_df", locals["load_model"])
  /\ UNCHANGED <<normalizer_vars, jobs_df, vectorizer, learning_df, relevance_score>>

\* load_model, line 289.
LoadModelJobsDf ==
  /\ pc["load_model"] = "jobs_df"
  /\ jobs_df' = locals["load_model"].model_data.jobs_df
  /\ step("load_model", "done", locals["load_model"])
  /\ UNCHANGED <<normalizer_vars, vectorizer, job_vectors, learning_df, relevance_score>>

\* normalize_skill, line 95: the guard reads self.skill_taxonomy.
NormalizeSkillGuard ==
  /\ pc["normalize_skill"] = "start"
  /\ \E skill_text \in DOMAIN encode :
       IF normalizer_taxonomy = <<>>
       THEN step("normalize_skill", "done",
                 [having_read("normalize_skill", "skill_taxonomy", normalizer_taxonomy)
                    EXCEPT !.outcome = returned(<<>>)])
       ELSE step("normalize_skill", "similarities",
                 having_read("normalize_skill", "skill_taxonomy", normalizer_taxonomy)
                   @@ [skill_text |-> skill_text])
  /\ UNCHANGED <<normalizer_vars, recommender_vars>>

\* normalize_skill, lines 99-105: cos_sim reads self.skill_embeddings, and
\* topk picks the indices.
NormalizeSkillSimilarities ==
  /\ pc["normalize_skill"] = "similarities"
  /\ LET similarities ==
           [i \in 1..Len(skill_embeddings) |->
              cos_sim(encode[locals["normalize_skill"].skill_text], skill_embeddings[i])]
     IN  \E indices \in topk(similarities, min2(MaxTopK, Len(similarities))) :
            step("normalize_skill", "rows",
                 having_read("normalize_skill", "skill_embeddings", skill_embeddings)
                   @@ [similarities |-> similarities, indices |-> indices])
  /\ UNCHANGED <<normalizer_vars, recommender_vars>>

\* normalize_skill, lines 108-121: self.skill_taxonomy.iloc[idx] for every
\* match at or above the default threshold 0.5; iloc raises IndexError past
\* the last row.
NormalizeSkillRows ==
  /\ pc["normalize_skill"] = "rows"
  /\ LET mine == locals["normalize_skill"]
         kept == SelectSeq(mine.indices, LAMBDA i : mine.similarities[i] >= 500)
         read == having_read("normalize_skill", "skill_taxonomy", normalizer_taxonomy)
     IN  step("normalize_skill", "done",
              [read EXCEPT !.outcome =
                 IF \E r \in 1..Len(kept) : kept[r] > Len(normalizer_taxonomy)
                 THEN raised("IndexError")
                 ELSE returned([r \in 1..Len(kept) |->
                        [original_skill |-> mine.skill_text,
                         normalized_skill |-> normalizer_taxonomy[kept[r]].skill_name,
                         category |-> normalizer_taxonomy[kept[r]].category,
                         similarity |-> mine.similarities[kept[r]],
                         skill_id |-> normalizer_taxonomy[kept[r]].skill_id]])])
  /\ UNCHANGED <<normalizer_vars, recommender_vars>>

\* load_embeddings, lines 179-180: pickle.load.
LoadEmbeddingsUnpickle ==
  /\ pc["load_embeddings"] = "start"
  /\ \E data \in SavedEmbeddings :
       step("load_embeddings", "skill_embeddings",
            locals["load_embeddings"] @@ [data |-> data])
  /\ UNCHANGED <<normalizer_vars, recommender_vars>>

\* load_embeddings, line 182.
LoadEmbeddingsEmbeddings ==
  /\ pc["load_embeddings"] = "skill_embeddings"
  /\ skill_embeddings' = locals["load_embeddings"].data.skill_embeddings
  /\ step("load_embeddings", "skill_taxonomy", locals["load_embeddings"])
  /\ UNCHANGED <<normalizer_taxonomy, encode, recommender_vars>>

\* load_embeddings, line 183.
LoadEmbeddingsTaxonomy ==
  /\ pc["load_embeddings"] = "skill_taxonomy"
  /\ normalizer_taxonomy' = locals["load_embeddings"].data.skill_taxonomy
  /\ step("load_embeddings", "done", locals["load_embeddings"])
  /\ UNCHANGED <<skill_embeddings, encode, recommender_vars>>

NextReload ==
  \/ RecommendJobsGuard \/ RecommendJobsVectorize
  \/ RecommendJobsSimilarities \/ RecommendJobsRank
  \/ LoadModelUnpickle \/ LoadModelVectorizer
  \/ LoadModelJobVectors \/ LoadModelJobsDf
  \/ NormalizeSkillGuard \/ NormalizeSkillSimilarities \/ NormalizeSkillRows
  \/ LoadEmbeddingsUnpickle \/ LoadEmbeddingsEmbeddings \/ LoadEmbeddingsTaxonomy

SpecReload == InitReload /\ [][NextReload]_vars

\* ------------------------------------------------------------------------
\* Two recommend_learning requests running concurrently
\* ------------------------------------------------------------------------

LearningThreads == {"first", "second"}

\* The search skills of the concurrent requests.
LearningSearches == {<<"Tap Repair">>, <<"Electrical Wiring">>, <<"Pipe Fitting">>}

InitLearning ==
  /\ Idle
  /\ audio_processor = "none"
  /\ InitNormalizer(skill_taxonomy, [t \in EncodedTexts |-> <<1, 0>>])
  /\ \E learning \in {<<>>, learning_rows} : InitRecommender(<<>>, learning)
  /\ pc = [t \in LearningThreads |-> "start"]
  /\ locals = [t \in LearningThreads |-> no_locals]

\* recommend_learning, lines 175-200: the guard, the search skills and the
\* similarities of the resources to them.
RecommendLearningSimilarities(t) ==
  /\ pc[t] = "start"
  /\ \E worker_skills \in LearningSearches, top_k \in 1..MaxTopK :
       LET arguments == [worker_skills |-> worker_skills, target_skills |-> <<>>,
                         top_k |-> top_k]
       IN  IF learning_df = <<>>
           THEN step(t, "done", [locals[t] EXCEPT !.outcome = returned(<<>>)] @@ arguments)
           ELSE step(t, "assign",
                     locals[t] @@ arguments
                       @@ [similarities |->
                             learning_similarities(learning_df, worker_skills)])
  /\ UNCHANGED <<normalizer_vars, recommender_vars>>

\* recommend_learning, line 203:
\* self.learning_df['relevance_score'] = similarities.
RecommendLearningAssign(t) ==
  /\ pc[t] = "assign"
  /\ relevance_score' = locals[t].similarities
  /\ step(t, "rank", locals[t])
  /\ UNCHANGED <<normalizer_vars, jobs_df, vectorizer, job_vectors, learning_df>>

\* recommend_learning, lines 204-223:
\* self.learning_df.nlargest(top_k, 'relevance_score') and the result.
RecommendLearningRank(t) ==
  /\ pc[t] = "rank"
  /\ step(t, "done",
          [locals[t] EXCEPT !.outcome =
             returned(top_resources_of(learning_df, relevance_score,
                                       locals[t].top_k).result)])
  /\ UNCHANGED <<normalizer_vars, recommender_vars>>

NextLearning ==
  \E t \in LearningThreads :
     \/ RecommendLearningSimilarities(t)
     \/ RecommendLearningAssign(t)
     \/ RecommendLearningRank(t)

SpecLearning == InitLearning /\ [][NextLearning]_vars

\* ------------------------------------------------------------------------
\* SkillNormalizer on its own
\* ------------------------------------------------------------------------

InitNormalize ==
  /\ NoCall
  /\ audio_processor = "none"
  /\ \E taxonomy \in TaxonomyFiles, model \in [NormalizerTexts -> Vectors] :
       InitNormalizer(taxonomy, model)
  /\ InitRecommender(<<>>, <<>>)

\* SkillNormalizer.normalize_skill(skill_text, threshold, top_k)
NormalizeSkill ==
  /\ op = "none"
  /\ \E skill_text \in DOMAIN encode, threshold \in Thresholds, top_k \in 1..MaxTopK :
       /\ op' = "normalize_skill"
       /\ request' = [skill_text |-> skill_text, threshold |-> threshold,
                      top_k |-> top_k]
       /\ \E matches \in normalize_skill(skill_normalizer, skill_text, threshold, top_k) :
            outcome' = returned(matches)
  /\ UNCHANGED <<extractor_vars, normalizer_vars, recommender_vars, pipeline_vars, thread_vars, db>>

NextNormalize == NormalizeSkill

SpecNormalize == InitNormalize /\ [][NextNormalize]_vars

\* ------------------------------------------------------------------------
\* The skill-gap analysis of JobRecommender
\* ------------------------------------------------------------------------

InitSkillGap ==
  /\ NoCall
  /\ audio_processor = "none"
  /\ InitNormalizer(skill_taxonomy, [t \in EncodedTexts |-> <<1, 0>>])
  /\ \E file \in GapJobFiles : InitRecommender(gap_jobs_of(file), <<>>)

\* JobRecommender.get_skill_gap_analysis(worker_skills, target_job_title)
GetSkillGapAnalysis ==
  /\ op = "none"
  /\ \E worker_skills \in GapSkillLists, target_job_title \in TargetTitles :
       /\ op' = "get_skill_gap_analysis"
       /\ request' = [worker_skills |-> worker_skills,
                      target_job_title |-> target_job_title]
       /\ outcome' \in get_skill_gap_analysis(job_recommender, worker_skills,
                                              target_job_title)
  /\ UNCHANGED <<extractor_vars, normalizer_vars, recommender_vars, pipeline_vars, thread_vars, db>>

NextSkillGap == GetSkillGapAnalysis

SpecSkillGap == InitSkillGap /\ [][NextSkillGap]_vars

\* ------------------------------------------------------------------------
\* SkillSyncPipeline
\* ------------------------------------------------------------------------

\* str.strip(): without the leading and trailing spaces.
RECURSIVE strip(_)
strip(s) ==
  IF s = <<>> THEN s
  ELSE IF is_space(s[1]) THEN strip(Tail(s))
  ELSE IF is_space(s[Len(s)]) THEN strip(SubSeq(s, 1, Len(s) - 1))
  ELSE s

supported_formats ==
  {<<".","m","p","3">>, <<".","w","a","v">>, <<".","m","4","a">>,
   <<".","o","g","g">>, <<".","f","l","a","c">>, <<".","a","a","c">>,
   <<".","w","m","a">>}

\* AudioProcessor.transcribe_audio(audio_path): the record it returns or the
\* exception it raises.
audio_transcribe(audio) ==
  IF ~audio.exists THEN raised("FileNotFoundError")
  ELSE IF lower(audio.suffix) \notin supported_formats THEN raised("ValueError")
  ELSE IF audio.speech = "error"
  THEN returned([text |-> <<>>, language |-> "unknown", segments |-> <<>>,
                 duration |-> 0, model |-> "base", success |-> FALSE,
                 error |-> "model.transcribe failed"])
  ELSE returned([text |-> strip(audio.speech), language |-> audio.language,
                 segments |-> <<>>, duration |-> Len(audio.speech),
                 model |-> "base", success |-> TRUE])

\* SkillSyncPipeline.transcribe_audio(audio_path)
transcribe_audio(self, audio) ==
  IF self.audio_processor = "none" THEN raised("Exception")
  ELSE audio_transcribe(audio)

\* self.skill_extractor.extract_from_utterance(text), for every utterance the
\* pipeline is given: the records it may return.
extraction_result == [t \in PipelineTexts |-> extract_from_utterance(t)]

\* normalized_skills: the best match of every raw skill that has one, given
\* what normalize_skill returned for each raw skill.
RECURSIVE best_matches(_)
best_matches(matches) ==
  IF matches = <<>> THEN <<>>
  ELSE (IF Head(matches) # <<>> THEN <<Head(matches)[1]>> ELSE <<>>)
         \o best_matches(Tail(matches))

\* A run of a pipeline method: its outcome, the collaborators' methods it
\* called, and what it left in the collaborators.
run(result, called, extraction, transcription, column) ==
  [outcome |-> result, calls |-> called, extraction |-> extraction,
   transcription_result |-> transcription, relevance_score |-> column]

no_extraction == [text |-> <<>>, skills |-> <<>>]

\* raw_skills
raw_skills_of(extraction) ==
  [i \in 1..Len(extraction.skills) |-> extraction.skills[i].skill]

\* What the normalize_skill calls of the loop may return, one list per raw
\* skill.
all_matches(self, raw_skills) ==
  {m \in [1..Len(raw_skills) ->
            UNION {normalize_skill(self, raw_skills[i], 500, 1) :
                     i \in 1..Len(raw_skills)}] :
     \A i \in 1..Len(raw_skills) :
        m[i] \in normalize_skill(self, raw_skills[i], 500, 1)}

\* The profile process_text_input builds; processing_time, the wall-clock
\* time, is left out.
profile_of(t, extraction, normalized_skills, unique_normalized, job_recommendations, learning_recommendations) ==
  [input_text |-> t,
   extracted_info |->
     [raw_skills |-> raw_skills_of(extraction),
      normalized_skills |-> unique_normalized,
      job_title |-> extraction.job_title,
      experience_years |-> extraction.experience_years,
      categories |-> extraction.categories],
   job_recommendations |->
     SubSeq(job_recommendations, 1, min2(5, Len(job_recommendations))),
   learning_recommendations |-> learning_recommendations,
   skill_details |-> normalized_skills]

\* The run of process_text_input, given what its collaborators returned.
text_run(t, extraction, normalized_skills, unique_normalized, job_recommendations, learning) ==
  run(returned(profile_of(t, extraction, normalized_skills, unique_normalized,
                          job_recommendations, learning.result)),
      <<"process_text_input", "extract_from_utterance">>
        \o [i \in 1..Len(extraction.skills) |-> "normalize_skill"]
        \o <<"recommend_jobs", "recommend_learning">>,
      extraction, no_outcome, learning.relevance_score)

\* Steps 3 and 4: the recommendations for unique_normalized.
recommend(self, t, extraction, normalized_skills, unique_normalized) ==
  text_run(t, extraction, normalized_skills, unique_normalized,
           recommend_jobs(self, unique_normalized, <<>>, 10),
           recommend_learning(self, unique_normalized, <<>>, 5))

\* unique_normalized = list(set(...)): a run for every order it may have.
unique_runs(self, t, extraction, normalized_skills) ==
  {recommend(self, t, extraction, normalized_skills, unique_normalized) :
     unique_normalized \in
       list_of_set({normalized_skills[i].normalized_skill :
                      i \in 1..Len(normalized_skills)})}

\* Step 2: a run for everything the normalize_skill calls may return.
normalize(self, t, extraction) ==
  UNION {unique_runs(self.job_recommender, t, extraction, best_matches(matches)) :
           matches \in all_matches(self.skill_normalizer, raw_skills_of(extraction))}

\* SkillSyncPipeline.process_text_input(text): every run it may have (the
\* order of unique_normalized is that of list(set(...)); normalize_skill may
\* meet a tie).
process_text_input(self, t) ==
  UNION {normalize(self, t, extraction) : extraction \in extraction_result[t]}

\* The run of process_audio_input that goes on with process_text_input
\* whatever the transcription's success flag says.
process_audio_input_regardless(self, audio) ==
  LET transcription == transcribe_audio(self, audio)
  IN  IF transcription.kind = "raise"
      THEN {run(transcription, <<"transcribe_audio">>, no_extraction,
                no_outcome, self.job_recommender.relevance_score)}
      ELSE {run(returned([transcription |->
                            [text |-> transcription.value.text,
                             language |-> transcription.value.language,
                             duration |-> transcription.value.duration,
                             segments |-> transcription.value.segments],
                          audio_file |-> audio,
                          success |-> TRUE] @@ r.outcome.value),
                <<"transcribe_audio">> \o r.calls, r.extraction, transcription,
                r.relevance_score) :
              r \in process_text_input(self, transcription.value.text)}

\* SkillSyncPipeline.process_audio_input(audio_path): every run it may have.
process_audio_input(self, audio) ==
  LET transcription == transcribe_audio(self, audio)
  IN  IF transcription.kind = "raise"
      THEN {run(transcription, <<"transcribe_audio">>, no_extraction,
                no_outcome, self.job_recommender.relevance_score)}
      ELSE IF ~transcription.value.success
      THEN {run(returned([success |-> FALSE, error |-> "Transcription failed",
                          transcription |-> transcription.value]),
                <<"transcribe_audio">>, no_extraction, transcription,
                self.job_recommender.relevance_score)}
      ELSE {run(returned([transcription |->
                            [text |-> transcription.value.text,
                             language |-> transcription.value.language,
                             duration |-> transcription.value.duration,
                             segments |-> transcription.value.segments],
                          audio_file |-> audio,
                          success |-> TRUE] @@ r.outcome.value),
                <<"transcribe_audio">> \o r.calls, r.extraction, transcription,
                r.relevance_score) :
              r \in process_text_input(self, transcription.value.text)}

\* SkillSyncPipeline.create_worker_profile(text, worker_info): every run it
\* may have.  No worker_info (None or {}) is the empty record.
create_worker_profile(self, t, worker_info) ==
  {run(returned(IF DOMAIN worker_info # {}
                THEN [worker_info |-> worker_info] @@ r.outcome.value
                ELSE r.outcome.value),
       r.calls, r.extraction, r.transcription_result, r.relevance_score) :
     r \in process_text_input(self, t)}

\* The pipeline after a run of process_text_input.
after(self, r) ==
  [self EXCEPT !.job_recommender.relevance_score = r.relevance_score]

\* The loop of batch_process: the runs of process_text_input on the texts,
\* one after the other, every way they may go.
RECURSIVE batch_runs(_, _)
batch_runs(self, texts) ==
  IF texts = <<>> THEN {<<>>}
  ELSE UNION {{<<r>> \o rest : rest \in batch_runs(after(self, r), Tail(texts))} :
                r \in process_text_input(self, Head(texts))}

RECURSIVE calls_of(_)
calls_of(runs) ==
  IF runs = <<>> THEN <<>> ELSE Head(runs).calls \o calls_of(Tail(runs))

\* batch_process after its loop: with an output_file it calls json.dump, and
\* the module never imports json (NameError); without one it returns the
\* profiles.  No output_file (None or '') is the empty string.
batch_run(self, runs, output_file) ==
  run(IF output_file # "" THEN raised("NameError")
      ELSE returned([i \in 1..Len(runs) |-> runs[i].outcome.value]),
      <<"batch_process">> \o calls_of(runs),
      IF runs = <<>> THEN no_extraction ELSE runs[Len(runs)].extraction,
      no_outcome,
      IF runs = <<>> THEN self.job_recommender.relevance_score
      ELSE runs[Len(runs)].relevance_score)

\* SkillSyncPipeline.batch_process(texts, output_file): every run it may
\* have.
batch_process(self, texts, output_file) ==
  {batch_run(self, runs, output_file) : runs \in batch_runs(self, texts)}

\* What a run leaves behind in the pipeline and its collaborators.
Effects(r) ==
  /\ calls' = r.calls
  /\ transcription_result' = r.transcription_result
  /\ relevance_score' = r.relevance_score
  /\ utterance' = r.extraction.text
  /\ skills_found' = r.extraction.skills
  /\ UNCHANGED <<normalizer_vars, jobs_df, vectorizer, job_vectors, learning_df,
                 audio_processor, thread_vars>>

\* What a run of a pipeline method leaves behind.
Ran(r) ==
  /\ outcome' = r.outcome
  /\ Effects(r)
  /\ UNCHANGED db

InitPipeline ==
  /\ NoCall
  /\ audio_processor \in {"none", "ready"}
  /\ \E model \in [EncodedTexts -> Vectors] : InitNormalizer(skill_taxonomy, model)
  /\ InitRecommender(job_rows, learning_rows)

ProcessTextInput ==
  /\ op = "none"
  /\ \E t \in PipelineTexts :
       /\ op' = "process_text_input"
       /\ request' = [text |-> t]
       /\ \E r \in process_text_input(pipeline, t) : Ran(r)

ProcessAudioInput ==
  /\ op = "none"
  /\ \E audio \in AudioFiles :
       /\ op' = "process_audio_input"
       /\ request' = [audio_path |-> audio]
       /\ \E r \in process_audio_input(pipeline, audio) : Ran(r)

CreateWorkerProfile ==
  /\ op = "none"
  /\ \E t \in PipelineTexts, worker_info \in WorkerInfos :
       /\ op' = "create_worker_profile"
       /\ request' = [text |-> t, worker_info |-> worker_info]
       /\ \E r \in create_worker_profile(pipeline, t, worker_info) : Ran(r)

\* The texts of the batches: "Pipe Fitting" and "Pipe Fitting Tap Repair".
BatchTexts == {join(<<5>>), join(<<5, 6>>)}

\* The batches: up to MaxBatch texts, repetitions allowed.
Batches == UNION {[1..n -> BatchTexts] : n \in 0..MaxBatch}

\* The output_file argument: none, or a path.
OutputFiles == {"", "outputs/batch_results.json"}

BatchProcess ==
  /\ op = "none"
  /\ \E texts \in Batches, output_file \in OutputFiles :
       /\ op' = "batch_process"
       /\ request' = [texts |-> texts, output_file |-> output_file]
       /\ \E r \in batch_process(pipeline, texts, output_file) : Ran(r)

NextBatch == BatchProcess

SpecBatch == InitPipeline /\ [][NextBatch]_vars

NextPipeline ==
  ProcessTextInput \/ ProcessAudioInput \/ CreateWorkerProfile \/ NormalizeSkill

SpecPipeline == InitPipeline /\ [][NextPipeline]_vars

\* ------------------------------------------------------------------------
\* app_api: /api/text/process and /api/voice/process on the SkillSyncDB
\* ------------------------------------------------------------------------

\* SkillSyncDB.log_analytics(worker_id, event_type, event_data): the row is
\* committed.  event_data stands for its JSON text.
log_analytics(self, worker_id, event_type, event_data) ==
  [self EXCEPT !.analytics =
     Append(@, [worker_id |-> worker_id, event_type |-> event_type,
                event_data |-> event_data])]

\* dict.get(key, default)
get(d, key, default) == IF key \in DOMAIN d THEN d[key] ELSE default

\* SkillSyncDB.create_worker_profile(profile_data) at the second now: the
\* worker_id it returns and the database it leaves, or the IntegrityError of
\* the UNIQUE worker_id column, raised before the commit.  None is "None";
\* skills stands for its JSON text.
db_create_worker_profile(self, profile_data, now) ==
  LET worker_id == IF get(profile_data, "worker_id", "None") # "None"
                   THEN profile_data.worker_id
                   ELSE <<"WKR_", now>>
      row == [worker_id |-> worker_id,
              name |-> get(profile_data, "name", "None"),
              phone |-> get(profile_data, "phone", "None"),
              language |-> get(profile_data, "language", "None"),
              job_title |-> get(profile_data, "job_title", "None"),
              experience_years |-> get(profile_data, "experience_years", 0),
              skills |-> get(profile_data, "skills", <<>>),
              location |-> get(profile_data, "location", "None"),
              audio_file_path |-> get(profile_data, "audio_file_path", "None"),
              transcription |-> get(profile_data, "transcription", "None")]
  IN  IF \E i \in 1..Len(self.worker_profiles) :
            self.worker_profiles[i].worker_id = worker_id
      THEN [outcome |-> raised("IntegrityError"), db |-> self]
      ELSE [outcome |-> returned(worker_id),
            db |-> log_analytics(
                     [self EXCEPT !.worker_profiles = Append(@, row)],
                     worker_id, "profile_created", profile_data)]

\* SkillSyncDB.apply_for_job(worker_id, job_data): the database it leaves.
apply_for_job(self, worker_id, job_data) ==
  log_analytics(
    [self EXCEPT !.job_applications =
       Append(@, [worker_id |-> worker_id,
                  job_id |-> get(job_data, "job_id", "None"),
                  job_title |-> get(job_data, "job_title", "None"),
                  match_score |-> get(job_data, "match_score", 0)])],
    worker_id, "job_applied", job_data)

\* SkillSyncDB.add_learning_resource(worker_id, resource_data): the database
\* it leaves.
add_learning_resource(self, worker_id, resource_data) ==
  [self EXCEPT !.learning_progress =
     Append(@, [worker_id |-> worker_id,
                resource_id |-> get(resource_data, "resource_id", "None"),
                resource_title |-> get(resource_data, "title", "None"),
                resource_url |-> get(resource_data, "url", "None"),
                status |-> "recommended"])]

\* seq[:n]
first_n(seq, n) == SubSeq(seq, 1, min2(n, Len(seq)))

\* The first of the keys that the dict d lacks (d[key] raises KeyError), or
\* "" when it has them all.
RECURSIVE missing_key(_, _)
missing_key(d, keys) ==
  IF keys = <<>> THEN ""
  ELSE IF Head(keys) \notin DOMAIN d THEN Head(keys)
  ELSE missing_key(d, Tail(keys))

\* except Exception as e: raise HTTPException(status_code=500, detail=str(e))
http_500(exception) ==
  [kind |-> "raise", exception |-> "HTTPException", status_code |-> 500,
   detail |-> exception]

\* What a request leaves: its response and the database.
responded(response, database) == [response |-> response, db |-> database]

\* The return statement of /api/text/process, lines 203-210, after
\* db.create_worker_profile returned worker_id and left stored.
text_response(result, profile_data, worker_id, stored) ==
  IF missing_key(result, <<"extracted_info", "job_recommendations",
                           "learning_resources">>) # ""
  THEN responded(http_500("KeyError"), stored)
  ELSE responded(returned(
                   [success |-> TRUE, worker_id |-> worker_id,
                    profile |-> profile_data,
                    extracted_info |-> result.extracted_info,
                    job_recommendations |-> first_n(result.job_recommendations, 5),
                    learning_resources |-> first_n(result.learning_resources, 3)]),
                 stored)

\* /api/text/process after pipeline.process_text_input(text) returned result,
\* lines 190-210.
text_store(self, form, result, now) ==
  IF missing_key(result, <<"extracted_info">>) # ""
       \/ missing_key(result.extracted_info,
                      <<"job_title", "experience_years", "normalized_skills">>) # ""
  THEN responded(http_500("KeyError"), self)
  ELSE LET profile_data ==
             [name |-> form.name, phone |-> form.phone,
              location |-> form.location, language |-> "unknown",
              job_title |-> result.extracted_info.job_title,
              experience_years |-> result.extracted_info.experience_years,
              skills |-> result.extracted_info.normalized_skills,
              transcription |-> form.text]
           created == db_create_worker_profile(self, profile_data, now)
       IN  IF created.outcome.kind = "raise"
           THEN responded(http_500(created.outcome.exception), created.db)
           ELSE text_response(result, profile_data, created.outcome.value,
                              created.db)

\* The endpoint /api/text/process, lines 185-213, on the run r of
\* pipeline.process_text_input(text).
api_text_process(self, form, r, now) ==
  IF r.outcome.kind = "raise" THEN responded(http_500(r.outcome.exception), self)
  ELSE text_store(self, form, r.outcome.value, now)

\* The loop of lines 140-145: db.apply_for_job for each of the jobs, or the
\* KeyError of a job without job_title or match_percentage, with what was
\* committed before it.
RECURSIVE apply_for_jobs(_, _, _)
apply_for_jobs(self, worker_id, jobs) ==
  IF jobs = <<>> THEN [outcome |-> returned("None"), db |-> self]
  ELSE IF missing_key(Head(jobs), <<"job_title", "match_percentage">>) # ""
  THEN [outcome |-> raised("KeyError"), db |-> self]
  ELSE apply_for_jobs(
         apply_for_job(self, worker_id,
                       [job_id |-> get(Head(jobs), "job_id",
                                       <<"JOB_", Head(jobs).job_title>>),
                        job_title |-> Head(jobs).job_title,
                        match_score |-> Head(jobs).match_percentage]),
         worker_id, Tail(jobs))

\* The loop of lines 148-153: db.add_learning_resource for each of the
\* resources, or the KeyError of a resource without title.
RECURSIVE add_learning_resources(_, _, _)
add_learning_resources(self, worker_id, resources) ==
  IF resources = <<>> THEN [outcome |-> returned("None"), db |-> self]
  ELSE IF missing_key(Head(resources), <<"title">>) # ""
  THEN [outcome |-> raised("KeyError"), db |-> self]
  ELSE add_learning_resources(
         add_learning_resource(self, worker_id,
                               [resource_id |-> <<"RES_", Head(resources).title>>,
                                title |-> Head(resources).title,
                                url |-> get(Head(resources), "url", "#")]),
         worker_id, Tail(resources))

\* /api/voice/process, lines 147-164, after the job applications were
\* stored: the learning resources and the return statement.
voice_response(result, profile_data, worker_id, stored) ==
  IF missing_key(result, <<"learning_resources">>) # ""
  THEN responded(http_500("KeyError"), stored)
  ELSE LET added == add_learning_resources(stored, worker_id,
                                           first_n(result.learning_resources, 3))
       IN  IF added.outcome.kind = "raise"
           THEN responded(http_500(added.outcome.exception), added.db)
           ELSE responded(returned(
                            [success |-> TRUE, worker_id |-> worker_id,
                             profile |-> profile_data,
                             transcription |-> result.transcription,
                             extracted_info |-> result.extracted_info,
                             job_recommendations |->
                               first_n(result.job_recommendations, 5),
                             learning_resources |->
                               first_n(result.learning_resources, 3),
                             message |-> "Profile created successfully!"]),
                          added.db)

\* /api/voice/process, lines 137-164: db.create_worker_profile and the job
\* applications.
voice_applications(self, result, profile_data, now) ==
  LET created == db_create_worker_profile(self, profile_data, now)
  IN  IF created.outcome.kind = "raise"
      THEN responded(http_500(created.outcome.exception), created.db)
      ELSE IF missing_key(result, <<"job_recommendations">>) # ""
      THEN responded(http_500("KeyError"), created.db)
      ELSE LET applied == apply_for_jobs(created.db, created.outcome.value,
                                         first_n(result.job_recommendations, 5))
           IN  IF applied.outcome.kind = "raise"
               THEN responded(http_500(applied.outcome.exception), applied.db)
               ELSE voice_response(result, profile_data,
                                   created.outcome.value, applied.db)

\* /api/voice/process after pipeline.process_audio_input(audio_path) returned
\* result, lines 125-164.
voice_store(self, form, audio_path, result, now) ==
  IF \/ missing_key(result, <<"transcription", "extracted_info">>) # ""
     \/ missing_key(result.transcription, <<"language", "text">>) # ""
     \/ missing_key(result.extracted_info,
                    <<"job_title", "experience_years", "normalized_skills">>) # ""
  THEN responded(http_500("KeyError"), self)
  ELSE voice_applications(
         self, result,
         [name |-> form.name, phone |-> form.phone, location |-> form.location,
          language |-> result.transcription.language,
          job_title |-> result.extracted_info.job_title,
          experience_years |-> result.extracted_info.experience_years,
          skills |-> result.extracted_info.normalized_skills,
          audio_file_path |-> audio_path,
          transcription |-> result.transcription.text],
         now)

\* The endpoint /api/voice/process, lines 109-167, on the run r of
\* pipeline.process_audio_input(audio_path).
api_voice_process(self, form, audio_path, r, now) ==
  IF r.outcome.kind = "raise" THEN responded(http_500(r.outcome.exception), self)
  ELSE voice_store(self, form, audio_path, r.outcome.value, now)

\* The file the voice endpoint saves, lines 111-117:
\* uploads/audio_<timestamp>.<what follows the last "." of the file name>,
\* with the content of the upload.  The uploads' names end in their suffix.
saved_upload(audio_file) ==
  [audio_file EXCEPT !.exists = TRUE, !.suffix = <<".">> \o Tail(audio_file.suffix)]

\* The optional form fields of a request: name and location given or not
\* (None is "None").
Forms == [name : {"None", "Ravi"}, phone : {"None"}, location : {"None", "Mumbai"}]

\* The seconds at which a request arrives, as strftime writes them.
Clock == {"20250101120000", "20250101120001"}

\* The uploads of the voice endpoint.
Uploads == {audio \in AudioFiles : audio.exists}

\* The API after startup_event: a new database, the pipeline built.
InitApi == InitPipeline

\* POST /api/text/process
ApiTextProcess ==
  /\ op = "none"
  /\ \E t \in PipelineTexts, form \in Forms, now \in Clock :
       /\ op' = "api_text_process"
       /\ request' = [text |-> t, form |-> form, now |-> now]
       /\ \E r \in process_text_input(pipeline, t) :
            LET done == api_text_process(db, [text |-> t] @@ form, r, now)
            IN  /\ outcome' = done.response
                /\ db' = done.db
                /\ Effects(r)

\* POST /api/voice/process
ApiVoiceProcess ==
  /\ op = "none"
  /\ \E audio_file \in Uploads, form \in Forms, now \in Clock :
       /\ op' = "api_voice_process"
       /\ request' = [audio_file |-> audio_file, form |-> form, now |-> now]
       /\ \E r \in process_audio_input(pipeline, saved_upload(audio_file)) :
            LET done == api_voice_process(db, form, saved_upload(audio_file), r, now)
            IN  /\ outcome' = done.response
                /\ db' = done.db
                /\ Effects(r)

NextApi == ApiTextProcess \/ ApiVoiceProcess

SpecApi == InitApi /\ [][NextApi]_vars

\* ------------------------------------------------------------------------
\* Properties of extract_skills
\* ------------------------------------------------------------------------

all_skills == {multilingual_keywords[i].skill : i \in 1..Len(multilingual_keywords)}

\* The lower-cased text contains at least one keyword variant of the skill.
mentions(t, skill_name) ==
  LET text_lower == lower(t)
  IN  \E i \in 1..Len(multilingual_keywords) :
        /\ multilingual_keywords[i].skill = skill_name
        /\ \E k \in 1..Len(multilingual_keywords[i].keywords) :
              contains(text_lower, lower(multilingual_keywords[i].keywords[k]))

\* How many entries of the list carry the skill.
count(list, skill_name) ==
  Cardinality({i \in 1..Len(list) : list[i].skill = skill_name})

\* C1 as stated: every skill with a keyword variant in the lower-cased text
\* is returned exactly once, whatever else the utterance contains.
C1_EveryMentionedSkillExactlyOnce ==
  op = "extract_skills" =>
    \A S \in all_skills : mentions(utterance, S) => count(skills_found, S) = 1

\* C1 amended: a skill with a keyword variant in the lower-cased text is
\* never returned twice, and is returned exactly once unless it is General
\* Repair with a keyword of one of its six specific skills in the text, or
\* Four Wheeler Repair with a Vehicle Driving keyword in the text.
C1_ExactlyOnceUnlessSuppressible ==
  op = "extract_skills" =>
    \A S \in {x \in all_skills : mentions(utterance, x)} :
      /\ count(skills_found, S) <= 1
      /\ (S \notin {"General Repair", "Four Wheeler Repair"}) => count(skills_found, S) = 1
      /\ (S = "General Repair" /\ ~ \E s \in specific_repairs : mentions(utterance, s))
            => count(skills_found, S) = 1
      /\ (S = "Four Wheeler Repair" /\ ~ mentions(utterance, "Vehicle Driving"))
            => count(skills_found, S) = 1

\* "I know Pipe Fitting and Tap Repair": both skills, once each, nothing else.
C1_Witness ==
  /\ op = "extract_skills"
  /\ mentions(utterance, "Pipe Fitting") /\ mentions(utterance, "Tap Repair")
  /\ Len(skills_found) = 2
  /\ count(skills_found, "Pipe Fitting") = 1 /\ count(skills_found, "Tap Repair") = 1

\* C2: the returned list never holds General Repair together with one of
\* its six specific skills, and when a General Repair keyword co-occurs with
\* a keyword of one of the six, General Repair is dropped and that specific
\* skill is kept.
C2_GeneralDroppedSpecificKept ==
  op = "extract_skills" =>
    /\ ~ ("General Repair" \in names_of(skills_found)
          /\ \E s \in specific_repairs : s \in names_of(skills_found))
    /\ \A s \in specific_repairs :
         (mentions(utterance, "General Repair") /\ mentions(utterance, s)) =>
           /\ "General Repair" \notin names_of(skills_found)
           /\ s \in names_of(skills_found)

\* C3: whenever the utterance matches a Vehicle Driving keyword and a Four
\* Wheeler Repair keyword, Vehicle Driving is returned and Four Wheeler
\* Repair is not, whichever Vehicle Driving variant was matched.
C3_DrivingSuppressesFourWheelerRepair ==
  (/\ op = "extract_skills"
   /\ mentions(utterance, "Vehicle Driving")
   /\ mentions(utterance, "Four Wheeler Repair")) =>
      /\ "Vehicle Driving" \in names_of(skills_found)
      /\ "Four Wheeler Repair" \notin names_of(skills_found)

\* ------------------------------------------------------------------------
\* Properties of SkillSyncPipeline
\* ------------------------------------------------------------------------

\* The call ran process_text_input to its end: the outcome is a profile.
profile_returned ==
  /\ op \in {"process_text_input", "process_audio_input", "create_worker_profile"}
  /\ outcome.kind = "return"
  /\ "extracted_info" \in DOMAIN outcome.value

\* The position in skill_details of the first match normalized to the name.
first_occurrence(skill_details, name) ==
  CHOOSE i \in 1..Len(skill_details) :
    /\ skill_details[i].normalized_skill = name
    /\ \A j \in 1..(i - 1) : skill_details[j].normalized_skill # name

\* C4: normalized_skills of the returned profile has no duplicates and is in
\* the order of first occurrence of each normalized name among the matches
\* of the raw skills, taken in extraction order.
C4_NormalizedSkillsInFirstOccurrenceOrder ==
  profile_returned =>
    LET normalized_skills == outcome.value.extracted_info.normalized_skills
        skill_details == outcome.value.skill_details
    IN  /\ \A i, j \in 1..Len(normalized_skills) :
              i # j => normalized_skills[i] # normalized_skills[j]
        /\ \A i \in 1..Len(normalized_skills) :
              \E k \in 1..Len(skill_details) :
                 skill_details[k].normalized_skill = normalized_skills[i]
        /\ \A i, j \in 1..Len(normalized_skills) :
              i < j => first_occurrence(skill_details, normalized_skills[i])
                         < first_occurrence(skill_details, normalized_skills[j])

\* The similarity of a raw skill and the taxonomy's i-th skill, thousandths.
similarity_to(raw_skill, i) == cos_sim(encode[raw_skill], skill_embeddings[i])

\* The taxonomy's i-th skill is a top-1 match of the raw skill at 0.5.
top_match(raw_skill, i) ==
  /\ similarity_to(raw_skill, i) >= 500
  /\ \A j \in 1..Len(skill_taxonomy) :
        similarity_to(raw_skill, j) <= similarity_to(raw_skill, i)

\* C5: every normalized skill of the returned profile is a taxonomy
\* skill_name that is the top-1 match, at similarity 0.5 or more, of some
\* extracted raw skill; there are no more normalized skills than raw skills;
\* a raw skill with no taxonomy skill at 0.5 or more has no match in
\* skill_details.
C5_NormalizedSkillsAreTopMatches ==
  profile_returned =>
    LET info == outcome.value.extracted_info
        skill_details == outcome.value.skill_details
    IN  /\ \A n \in 1..Len(info.normalized_skills) :
              \E i \in 1..Len(skill_taxonomy), r \in 1..Len(info.raw_skills) :
                 /\ skill_taxonomy[i].skill_name = info.normalized_skills[n]
                 /\ top_match(info.raw_skills[r], i)
        /\ Len(info.normalized_skills) <= Len(info.raw_skills)
        /\ \A r \in 1..Len(info.raw_skills) :
              (\A i \in 1..Len(skill_taxonomy) :
                  similarity_to(info.raw_skills[r], i) < 500) =>
                 \A k \in 1..Len(skill_details) :
                    skill_details[k].original_skill # info.raw_skills[r]

\* Two raw skills, one of them with no taxonomy skill at 0.5 or more: one
\* normalized skill.
C5_Witness ==
  /\ op = "process_text_input"
  /\ Len(outcome.value.extracted_info.raw_skills) = 2
  /\ \E r \in 1..2 : \A i \in 1..Len(skill_taxonomy) :
        similarity_to(outcome.value.extracted_info.raw_skills[r], i) < 500
  /\ Len(outcome.value.extracted_info.normalized_skills) = 1

\* C6: every call of process_text_input, process_audio_input and
\* create_worker_profile returns a record with a success flag; none raises.
C6_EveryCallReturnsSuccessFlag ==
  op \in {"process_text_input", "process_audio_input", "create_worker_profile"} =>
    /\ outcome.kind = "return"
    /\ "success" \in DOMAIN outcome.value

\* How many times the method was called.
times_called(method) == Cardinality({i \in 1..Len(calls) : calls[i] = method})

\* C7: in process_audio_input, when transcription returns success=False the
\* call returns success=False with an error message and the transcription
\* result, and extraction, normalization and recommendation are not called;
\* when it returns success=True, process_text_input is called exactly once,
\* on the transcript, and the result has success=True and the transcript's
\* text, language and duration.
C7_AudioShortCircuitsOnFailure ==
  (op = "process_audio_input" /\ transcription_result.kind = "return") =>
    LET transcription == transcription_result.value
    IN  IF ~transcription.success
        THEN /\ outcome.kind = "return"
             /\ outcome.value.success = FALSE
             /\ "error" \in DOMAIN outcome.value
             /\ outcome.value.transcription = transcription
             /\ calls = <<"transcribe_audio">>
        ELSE /\ times_called("process_text_input") = 1
             /\ utterance = transcription.text
             /\ outcome.kind = "return"
             /\ outcome.value.input_text = transcription.text
             /\ outcome.value.success = TRUE
             /\ outcome.value.transcription.text = transcription.text
             /\ outcome.value.transcription.language = transcription.language
             /\ outcome.value.transcription.duration = transcription.duration

\* Whisper fails on a file that exists in a supported format: the call
\* returns the failure record having called transcribe_audio only.
C7_Witness ==
  /\ op = "process_audio_input"
  /\ transcription_result.kind = "return"
  /\ ~transcription_result.value.success
  /\ outcome.kind = "return"
  /\ outcome.value.success = FALSE
  /\ calls = <<"transcribe_audio">>

\* ------------------------------------------------------------------------
\* Properties of JobRecommender
\* ------------------------------------------------------------------------

\* The match score recommend_jobs gives the i-th job of the corpus.
score_of(i) ==
  cosine_similarity(create_worker_vector(job_recommender, request.worker_skills),
                    job_vectors[i])

\* The jobs of the corpus that pass the call's location filter.
passing ==
  {i \in 1..Len(jobs_df) :
     request.location = <<>> \/ str_contains(jobs_df[i].location, request.location)}

\* The corpus row of the k-th returned job.
row_of(k) == CHOOSE i \in 1..Len(jobs_df) : jobs_df[i].job_id = outcome.value[k].job_id

\* C8: for non-empty worker_skills and a non-empty corpus, recommend_jobs
\* returns the top_k highest-scoring jobs among those passing the location
\* filter, highest first, jobs of equal score in corpus row order, and no
\* job left out scores strictly higher than a returned one.
C8_TopKByScoreTiesInRowOrder ==
  (op = "recommend_jobs" /\ request.worker_skills # <<>> /\ jobs_df # <<>>) =>
    LET result == outcome.value
    IN  /\ Len(result) = min2(request.top_k, Cardinality(passing))
        /\ \A k \in 1..Len(result) : row_of(k) \in passing
        /\ \A k, l \in 1..Len(result) : k < l =>
              \/ score_of(row_of(k)) > score_of(row_of(l))
              \/ score_of(row_of(k)) = score_of(row_of(l)) /\ row_of(k) < row_of(l)
        /\ \A k, l \in 1..Len(result) : k < l =>
              result[k].match_score >= result[l].match_score
        /\ \A i \in passing \ {row_of(k) : k \in 1..Len(result)} :
              \A k \in 1..Len(result) : score_of(i) <= score_of(row_of(k))

\* Two jobs of equal positive score returned in row order, and a passing job
\* of lower score, earlier in the corpus, left out.
C8_Witness ==
  /\ op = "recommend_jobs"
  /\ Len(outcome.value) = 2
  /\ score_of(row_of(1)) = score_of(row_of(2))
  /\ score_of(row_of(1)) > 0
  /\ row_of(1) < row_of(2)
  /\ \E i \in passing : i < row_of(1) /\ score_of(i) < score_of(row_of(1))

\* C9: with a non-empty location, every returned job's location contains the
\* location as a case-insensitive substring, and a job in that location is
\* left out only if top_k other jobs in that location rank at or above it.
C9_ReturnedJobsContainLocation ==
  (op = "recommend_jobs" /\ request.location # <<>>) =>
    LET result == outcome.value
        in_location(i) == contains(lower(jobs_df[i].location), lower(request.location))
        returned_rows == {row_of(k) : k \in 1..Len(result)}
    IN  /\ \A k \in 1..Len(result) : in_location(row_of(k))
        /\ (request.worker_skills # <<>>) =>
              \A i \in 1..Len(jobs_df) :
                 (in_location(i) /\ i \notin returned_rows) =>
                    /\ Len(result) = request.top_k
                    /\ \A r \in returned_rows :
                          /\ in_location(r)
                          /\ score_of(r) >= score_of(i)

\* The orderings of a list.
permutations(list) ==
  {[i \in 1..Len(list) |-> list[p[i]]] : p \in list_of_set(1..Len(list))}

\* C10: recommend_learning returns the same resources, with the same
\* relevance scores, in the same order, for every ordering of target_skills.
C10_LearningInvariantUnderPermutation ==
  (op = "recommend_learning" /\ request.target_skills # <<>>) =>
    \A reordered \in permutations(request.target_skills) :
       recommend_learning(job_recommender, request.worker_skills, reordered,
                          request.top_k).result = outcome.value

\* ------------------------------------------------------------------------
\* Properties of recommend_learning on empty input
\* ------------------------------------------------------------------------

\* The skills recommend_learning searches for: target_skills if given, else
\* worker_skills.
effective_search_skills ==
  IF request.target_skills # <<>> THEN request.target_skills
  ELSE request.worker_skills

\* C11: recommend_learning returns the empty list whenever the learning
\* corpus is empty or the effective search skills (target_skills if given,
\* else worker_skills) are empty.
C11_LearningEmptyOnEmptyInput ==
  (op = "recommend_learning"
     /\ (learning_df = <<>> \/ effective_search_skills = <<>>)) =>
    outcome.value = <<>>

\* ------------------------------------------------------------------------
\* Properties of get_skill_gap_analysis
\* ------------------------------------------------------------------------

\* The corpus rows whose title contains the requested title as a
\* case-insensitive substring.
titles_containing_target ==
  {i \in 1..Len(jobs_df) :
     contains(lower(title_text[jobs_df[i].job_title]), lower(request.target_job_title))}

\* The first of them in corpus order: the job the analysis is to choose.
chosen_job == jobs_df[CHOOSE i \in titles_containing_target :
                        \A j \in titles_containing_target : i <= j]

\* The chosen job's required-skill set and the set of worker skills.
required_set == set_of(chosen_job.required_skills)

current_set == set_of(request.worker_skills)

gap_analysis_of_matched_title ==
  op = "get_skill_gap_analysis" /\ titles_containing_target # {}

\* The call returned a report (not the error value).
gap_report_returned ==
  /\ op = "get_skill_gap_analysis"
  /\ outcome.kind = "return"
  /\ "error" \notin DOMAIN outcome.value

\* matched = required \cap current, missing = required \ current,
\* extra = current \ required, no list repeats a skill, and
\* total_required_skills = |matched| + |missing|.
gap_sets_partition ==
  LET report == outcome.value
  IN  /\ set_of(report.matched_skills) = required_set \cap current_set
      /\ set_of(report.missing_skills) = required_set \ current_set
      /\ set_of(report.extra_skills) = current_set \ required_set
      /\ Len(report.matched_skills) = Cardinality(set_of(report.matched_skills))
      /\ Len(report.missing_skills) = Cardinality(set_of(report.missing_skills))
      /\ Len(report.extra_skills) = Cardinality(set_of(report.extra_skills))
      /\ report.total_required_skills
           = Len(report.matched_skills) + Len(report.missing_skills)

\* C12: for every worker skill list and every target title that matches a
\* corpus job, get_skill_gap_analysis returns a report with
\* matched = required \cap current, missing = required \ current,
\* extra = current \ required and total_required_skills = |matched| +
\* |missing|, required being the chosen job's required-skill set.
C12_GapSetsPartition ==
  gap_analysis_of_matched_title => (gap_report_returned /\ gap_sets_partition)

\* C13: get_skill_gap_analysis returns the 'not found' error value, and does
\* not raise, whenever no corpus job title contains target_job_title as a
\* case-insensitive substring, the empty frame of a missing job file
\* included.
C13_GapNotFoundNeverRaises ==
  (op = "get_skill_gap_analysis" /\ titles_containing_target = {}) =>
    outcome = returned([error |-> "No jobs found for that title"])

\* C14: for a matched job the report's match_percentage is
\* |matched| / |required| * 100 rounded to one decimal, within [0, 100]; it
\* is 0 for an empty worker skill list; for a job without required skills
\* the call does not raise and reports 0 with empty missing_skills.
C14_GapMatchPercentage ==
  gap_analysis_of_matched_title =>
    /\ gap_report_returned
    /\ outcome.value.match_percentage >= 0
    /\ outcome.value.match_percentage <= 1000
    /\ (required_set # {}) =>
          outcome.value.match_percentage
            = round1(Cardinality(required_set \cap current_set),
                     Cardinality(required_set))
    /\ (request.worker_skills = <<>>) => outcome.value.match_percentage = 0
    /\ (required_set = {}) =>
          (outcome.value.match_percentage = 0 /\ outcome.value.missing_skills = <<>>)

\* C15: when several corpus jobs have a title containing target_job_title,
\* the report names the first of them in corpus order, with its category
\* and its number of required skills, whatever the worker skills are; a
\* call that raises does so on that row's missing required skills.
C15_GapFirstMatchingRow ==
  (op = "get_skill_gap_analysis" /\ Cardinality(titles_containing_target) > 1) =>
    /\ outcome.kind = "return" =>
         /\ gap_report_returned
         /\ outcome.value.target_job = chosen_job.job_title
         /\ outcome.value.category = chosen_job.category
         /\ outcome.value.total_required_skills = Cardinality(required_set)
         /\ set_of(outcome.value.matched_skills) \cup set_of(outcome.value.missing_skills)
              = required_set
    /\ outcome.kind = "raise" => chosen_job.required_skills = <<>>

\* Electrician and Mechanic both contain "ic"; the Mechanic comes first, the
\* worker has the Electrician's skill and none of the Mechanic's, and the
\* report is the Mechanic's.
C15_Witness ==
  /\ op = "get_skill_gap_analysis"
  /\ request.target_job_title = <<"i","c">>
  /\ Len(jobs_df) >= 2
  /\ jobs_df[1].job_title = "Mechanic"
  /\ jobs_df[2].job_title = "Electrician"
  /\ jobs_df[2].required_skills = <<"Electrical Wiring">>
  /\ request.worker_skills = <<"Electrical Wiring">>
  /\ gap_report_returned
  /\ outcome.value.target_job = "Mechanic"
  /\ outcome.value.matched_skills = <<>>
  /\ outcome.value.missing_skills = <<"Four Wheeler Repair">>

\* ------------------------------------------------------------------------
\* Properties of normalize_skill
\* ------------------------------------------------------------------------

\* The similarity of the requested text to every taxonomy entry.
request_similarities ==
  [i \in 1..Len(normalizer_taxonomy) |->
     cos_sim(encode[request.skill_text], skill_embeddings[i])]

\* The taxonomy entries that clear the requested threshold.
clearing == {i \in 1..Len(normalizer_taxonomy) :
               request_similarities[i] >= request.threshold}

\* The taxonomy row of the r-th returned match.
entry_of(r) ==
  CHOOSE i \in 1..Len(normalizer_taxonomy) :
    normalizer_taxonomy[i].skill_id = outcome.value[r].skill_id

\* C16: normalize_skill returns at most top_k matches, in non-increasing
\* order of similarity, each of similarity >= threshold: as many of the
\* entries clearing the threshold as top_k allows, none left out being more
\* similar than one returned; the result is empty when the taxonomy is empty
\* or nothing clears the threshold.
C16_NormalizeTopKAboveThreshold ==
  op = "normalize_skill" =>
    LET result == outcome.value
    IN  /\ outcome.kind = "return"
        /\ Len(result) <= request.top_k
        /\ Len(result) = min2(request.top_k, Cardinality(clearing))
        /\ \A r \in 1..Len(result) :
              /\ result[r].similarity = request_similarities[entry_of(r)]
              /\ result[r].similarity >= request.threshold
              /\ result[r].normalized_skill = normalizer_taxonomy[entry_of(r)].skill_name
              /\ result[r].original_skill = request.skill_text
        /\ \A q, r \in 1..Len(result) :
              q < r => (result[q].similarity >= result[r].similarity
                          /\ entry_of(q) # entry_of(r))
        /\ \A i \in 1..Len(normalizer_taxonomy) :
              (\A r \in 1..Len(result) : entry_of(r) # i) =>
                 \A r \in 1..Len(result) :
                    request_similarities[i] <= result[r].similarity
        /\ (normalizer_taxonomy = <<>> \/ clearing = {}) => result = <<>>

\* Three entries clear the threshold with different similarities, top_k is
\* 2, and the two most similar are returned in order.
C16_Witness ==
  /\ op = "normalize_skill"
  /\ request.top_k = 2
  /\ Cardinality(clearing) = 3
  /\ Len(outcome.value) = 2
  /\ outcome.value[1].similarity > outcome.value[2].similarity
  /\ \E i \in clearing : request_similarities[i] < outcome.value[2].similarity

\* a is the beginning of b.
is_prefix(a, b) == Len(a) <= Len(b) /\ SubSeq(b, 1, Len(a)) = a

\* C17: for the same text, top_k, taxonomy and encoder, the matches at a
\* higher threshold are a beginning of the matches at a lower one (topk
\* breaking ties the same way in both calls).
C17_ThresholdMonotone ==
  op = "normalize_skill" =>
    \A other \in Thresholds :
       /\ other > request.threshold =>
            \E higher \in normalize_skill(skill_normalizer, request.skill_text,
                                          other, request.top_k) :
               is_prefix(higher, outcome.value)
       /\ other < request.threshold =>
            \E wider \in normalize_skill(skill_normalizer, request.skill_text,
                                         other, request.top_k) :
               is_prefix(outcome.value, wider)

\* Two matches at threshold 0.3, of which the call at 0.9 keeps only the
\* first.
C17_Witness ==
  /\ op = "normalize_skill"
  /\ request.threshold = 300
  /\ Len(outcome.value) = 2
  /\ \A higher \in normalize_skill(skill_normalizer, request.skill_text, 900,
                                   request.top_k) :
        Len(higher) = 1 /\ higher[1] = outcome.value[1]

taxonomy_names ==
  {normalizer_taxonomy[i].skill_name : i \in 1..Len(normalizer_taxonomy)}

\* The call is normalize_skill(s, threshold=0.5, top_k=1) for a taxonomy
\* name s.
canonical_name_normalized ==
  /\ op = "normalize_skill"
  /\ request.skill_text \in taxonomy_names
  /\ request.threshold = 500
  /\ request.top_k = 1

\* The call returned exactly one match, the requested name itself.
returned_itself ==
  /\ Len(outcome.value) = 1
  /\ outcome.value[1].normalized_skill = request.skill_text

\* A profile was returned and every raw skill is a taxonomy name.
profile_of_canonical_names ==
  /\ op \in {"process_text_input", "process_audio_input", "create_worker_profile"}
  /\ outcome.kind = "return"
  /\ "extracted_info" \in DOMAIN outcome.value
  /\ set_of(outcome.value.extracted_info.raw_skills) \subseteq taxonomy_names

same_skills ==
  set_of(outcome.value.extracted_info.normalized_skills)
    = set_of(outcome.value.extracted_info.raw_skills)

\* No two taxonomy entries have embeddings of the same direction.
embeddings_apart ==
  \A i, j \in 1..Len(skill_embeddings) :
     i # j => cos_sim(skill_embeddings[i], skill_embeddings[j]) < 1000

\* C18 as stated: for every taxonomy name s, normalize_skill(s, 0.5, 1)
\* returns exactly one match, s itself, and a profile whose raw skills are
\* all taxonomy names has the same set of normalized_skills.
C18_CanonicalNamesNormalizeToThemselves ==
  /\ canonical_name_normalized => returned_itself
  /\ profile_of_canonical_names => same_skills

\* C18, amended: the same, for an encoder that gives no two taxonomy names
\* embeddings of the same direction.
C18_CanonicalNamesApartNormalizeToThemselves ==
  embeddings_apart =>
    /\ canonical_name_normalized => returned_itself
    /\ profile_of_canonical_names => same_skills

\* The second taxonomy name is normalized to itself, ahead of the first
\* entry, which clears the threshold too.
C18_Witness ==
  /\ canonical_name_normalized
  /\ embeddings_apart
  /\ request.skill_text = normalizer_taxonomy[2].skill_name
  /\ request_similarities[1] >= 500
  /\ returned_itself

\* ------------------------------------------------------------------------
\* Properties of extract_experience_years and extract_job_title
\* ------------------------------------------------------------------------

\* s[i..j] is a number followed, after any spaces, by one of the units.
number_with_unit(units, s, i, j) ==
  /\ i <= j
  /\ \A x \in i..j : is_digit(s[x])
  /\ \E k \in j..Len(s) :
        /\ \A x \in (j + 1)..k : s[x] = " "
        /\ \E u \in 1..Len(units) : starts_with(s, k + 1, units[u])

\* The positions where a match of the pattern can begin.
match_starts(units, s) ==
  {i \in 1..Len(s) : \E j \in i..Len(s) : number_with_unit(units, s, i, j)}

\* The number of the leftmost match: the longest run of digits from the
\* least position a match can begin at.
leftmost_number(units, s) ==
  LET i == CHOOSE a \in match_starts(units, s) :
             \A b \in match_starts(units, s) : a <= b
      j == CHOOSE a \in i..Len(s) :
             /\ number_with_unit(units, s, i, a)
             /\ \A b \in i..Len(s) : number_with_unit(units, s, i, b) => b <= a
  IN  int(SubSeq(s, i, j))

\* The patterns, in the order English, Hindi, Tamil, Telugu, Kannada, that
\* match somewhere in s.
matching_patterns(s) ==
  {p \in 1..Len(experience_patterns) : match_starts(experience_patterns[p], s) # {}}

\* C19: extract_experience_years returns a non-negative integer: the number
\* of the leftmost match of the earliest pattern (English, Hindi, Tamil,
\* Telugu, Kannada) that matches anywhere in the lower-cased text, and 0 when
\* no pattern matches.
C19_ExperienceOfEarliestPattern ==
  op = "extract_experience_years" =>
    LET s == lower(utterance)
        matching == matching_patterns(s)
    IN  /\ outcome.kind = "return"
        /\ outcome.value \in Nat
        /\ matching = {} => outcome.value = 0
        /\ matching # {} =>
             outcome.value =
               leftmost_number(
                 experience_patterns[CHOOSE p \in matching : \A q \in matching : p <= q],
                 s)

\* The Hindi "7 years" comes before the English "5 years" in the text, and
\* the English number is returned.
C19_Witness ==
  /\ op = "extract_experience_years"
  /\ matching_patterns(lower(utterance)) = {1, 2}
  /\ \E h \in match_starts(experience_patterns[2], lower(utterance)) :
        \A e \in match_starts(experience_patterns[1], lower(utterance)) : h < e
  /\ outcome.value = 5

\* The titles in the order the statement gives.
stated_title_order ==
  <<"Electrician", "Plumber", "Carpenter", "Welder", "Painter", "Driver",
    "Tailor", "Mechanic", "Beautician">>

\* A keyword of the title occurs in the text, in any case.
title_occurs(title, text) ==
  \E i \in 1..Len(job_titles) :
     /\ job_titles[i].title = title
     /\ \E k \in 1..Len(job_titles[i].keywords) :
           contains(lower(text), lower(job_titles[i].keywords[k]))

occurring_titles ==
  {n \in 1..Len(stated_title_order) : title_occurs(stated_title_order[n], utterance)}

\* C20: extract_job_title returns the first title, in the order
\* Electrician, Plumber, Carpenter, Welder, Painter, Driver, Tailor, Mechanic,
\* Beautician, one of whose keywords occurs in the text as a case-insensitive
\* substring, and "" exactly when no keyword of any title occurs.
C20_FirstTitleInTableOrder ==
  op = "extract_job_title" =>
    /\ outcome.kind = "return"
    /\ {job_titles[i].title : i \in 1..Len(job_titles)} = set_of(stated_title_order)
    /\ (outcome.value = "") <=> (occurring_titles = {})
    /\ occurring_titles # {} =>
         outcome.value =
           stated_title_order[CHOOSE n \in occurring_titles :
                                 \A m \in occurring_titles : n <= m]

\* "driver ELECTRICIAN": two titles match, Driver earlier in the text, and
\* Electrician, earlier in the table, is returned.
C20_Witness ==
  /\ op = "extract_job_title"
  /\ occurring_titles = {1, 6}
  /\ starts_with(lower(utterance), 1, <<"d","r","i","v","e","r">>)
  /\ outcome.value = "Electrician"

\* ------------------------------------------------------------------------
\* Properties of extract_skills: whitespace and order
\* ------------------------------------------------------------------------

is_whitespace(c) == c \in {" ", "\t", "\n"}

\* The text with every run of whitespace replaced by a single space.
RECURSIVE collapse_whitespace(_)
collapse_whitespace(t) ==
  IF t = <<>> THEN <<>>
  ELSE IF is_whitespace(t[1])
       THEN IF Len(t) > 1 /\ is_whitespace(t[2])
            THEN collapse_whitespace(Tail(t))
            ELSE <<" ">> \o collapse_whitespace(Tail(t))
       ELSE <<t[1]>> \o collapse_whitespace(Tail(t))

skill_list(skills) == [i \in 1..Len(skills) |-> skills[i].skill]

\* C21: extract_skills returns the same skills for an utterance as for the
\* utterance with every run of whitespace replaced by a single space.
C21_WhitespaceCollapsed ==
  op = "extract_skills" =>
    skill_list(skills_found)
      = skill_list(extract_skills(collapse_whitespace(utterance)))

\* The position of a skill in the keyword table.
table_index(skill_name) ==
  CHOOSE i \in 1..Len(multilingual_keywords) :
    multilingual_keywords[i].skill = skill_name

\* The variants of a skill contained in the lower-cased text.
contained_variants(skill_name, t) ==
  LET keywords == multilingual_keywords[table_index(skill_name)].keywords
  IN  {keywords[k] : k \in {h \in 1..Len(keywords) :
                              contains(lower(t), lower(keywords[h]))}}

\* C22: the returned list is ordered by each skill's longest keyword length,
\* descending, ties in keyword-table order, and each matched_keyword is a
\* longest one of the skill's variants contained in the lower-cased text.
C22_LongestFirst ==
  op = "extract_skills" =>
    /\ \A i, j \in 1..Len(skills_found) :
          i < j =>
            LET a == table_index(skills_found[i].skill)
                b == table_index(skills_found[j].skill)
                la == max_keyword_len(multilingual_keywords[a])
                lb == max_keyword_len(multilingual_keywords[b])
            IN  la > lb \/ (la = lb /\ a < b)
    /\ \A i \in 1..Len(skills_found) :
          LET variants == contained_variants(skills_found[i].skill, utterance)
          IN  /\ skills_found[i].matched_keyword \in variants
              /\ \A v \in variants : Len(v) <= Len(skills_found[i].matched_keyword)

\* Two skills are returned, and one of them has a shorter variant in the
\* text than the one recorded ('driving' inside 'car driving').
C22_Witness ==
  /\ op = "extract_skills"
  /\ Len(skills_found) >= 2
  /\ \E i \in 1..Len(skills_found) :
        \E v \in contained_variants(skills_found[i].skill, utterance) :
           Len(v) < Len(skills_found[i].matched_keyword)

\* ------------------------------------------------------------------------
\* Properties of concurrent requests
\* ------------------------------------------------------------------------

\* Everything the thread has read so far comes from one and the same
\* snapshot.
reads_of_one(t, snapshots) ==
  \E snapshot \in snapshots :
     \A r \in 1..Len(locals[t].read) :
        snapshot[locals[t].read[r][1]] = locals[t].read[r][2]

\* C23: a recommend_jobs request running concurrently with load_model
\* computes with vectorizer, job_vectors and jobs_df of one snapshot, and a
\* normalize_skill request running concurrently with load_embeddings with
\* skill_embeddings and skill_taxonomy of one snapshot.
C23_ReloadIsAtomic ==
  ReloadThreads \subseteq DOMAIN pc =>
    /\ reads_of_one("recommend_jobs", SavedModels)
    /\ reads_of_one("normalize_skill", SavedEmbeddings)

\* What the request of thread t returns when it runs alone on the
\* recommender.
alone(t) ==
  recommend_learning([learning_df |-> learning_df, relevance_score |-> <<>>],
                     locals[t].worker_skills, locals[t].target_skills,
                     locals[t].top_k).result

\* C24: each of two recommend_learning requests that run concurrently on
\* one JobRecommender returns the list it would return when run alone.
C24_ConcurrentLearningAsAlone ==
  \A t \in LearningThreads \cap DOMAIN pc :
     pc[t] = "done" => locals[t].outcome = returned(alone(t))

\* C25: the queries recommend_jobs and recommend_learning leave the shared
\* state of the JobRecommender as it was: the job corpus, the learning
\* corpus with its columns, the fitted vectorizer and the job vectors.
C25_QueriesLeaveCorporaUnchanged ==
  [][/\ jobs_df' = jobs_df
     /\ learning_df' = learning_df
     /\ relevance_score' = relevance_score
     /\ vectorizer' = vectorizer
     /\ job_vectors' = job_vectors]_vars

\* ------------------------------------------------------------------------
\* Properties of the pipeline: determinism and batches
\* ------------------------------------------------------------------------

\* C26: with the taxonomy, the corpora and a deterministic embedder fixed
\* (one under which normalize_skill meets no tie), every execution of
\* process_text_input on the same text returns the profile this one
\* returned: the same raw_skills, normalized_skills, categories and
\* recommendations, in the same order.
C26_ProcessTextInputDeterministic ==
  (op = "process_text_input" /\ embeddings_apart) =>
    \A r \in process_text_input(pipeline, request.text) : r.outcome = outcome

\* C27: batch_process returns one profile per text, in input order, the
\* i-th being a profile process_text_input(texts[i]) returns on its own,
\* whether output_file is given or not.
C27_BatchIsSequentialRepetition ==
  op = "batch_process" =>
    /\ outcome.kind = "return"
    /\ Len(outcome.value) = Len(request.texts)
    /\ \A i \in 1..Len(request.texts) :
          \E r \in process_text_input(pipeline, request.texts[i]) :
             r.outcome.value = outcome.value[i]

\* ------------------------------------------------------------------------
\* More properties of recommend_jobs and extract_skills
\* ------------------------------------------------------------------------

\* C28: recommend_jobs returns no job when worker_skills or the job corpus
\* is empty, and otherwise exactly min(top_k, number of corpus jobs passing
\* the location filter) jobs, whatever their scores.
C28_NumberOfJobsReturned ==
  op = "recommend_jobs" =>
    Len(outcome.value) =
      IF request.worker_skills = <<>> \/ jobs_df = <<>> THEN 0
      ELSE min2(request.top_k, Cardinality(passing))

\* Only one job scores above 0, and top_k = 2 jobs are returned, the second
\* with score 0.
C28_Witness ==
  /\ op = "recommend_jobs"
  /\ request.top_k = 2
  /\ Cardinality({i \in passing : score_of(i) > 0}) = 1
  /\ Len(outcome.value) = 2
  /\ outcome.value[1].match_score > 0
  /\ outcome.value[2].match_score = 0

\* The list the matching loop of extract_skills built, before
\* _filter_general_skills.
matched_skills == match_keywords(sorted_skills, lower(utterance), 1, <<>>, {})

\* C29: whenever the utterance matches a General Repair keyword and General
\* Repair is not returned, one of the six specific repair skills is
\* returned; and _filter_general_skills removes no skill other than General
\* Repair and Four Wheeler Repair and keeps the order of the rest.
C29_GenericSuppressedForSurvivingSpecific ==
  op = "extract_skills" =>
    /\ (mentions(utterance, "General Repair")
          /\ "General Repair" \notin names_of(skills_found)) =>
         \E s \in specific_repairs : s \in names_of(skills_found)
    /\ \E removed \in SUBSET {"General Repair", "Four Wheeler Repair"} :
          skills_found = SelectSeq(matched_skills, LAMBDA m : m.skill \notin removed)

\* ------------------------------------------------------------------------
\* Properties of the endpoints /api/text/process and /api/voice/process
\* ------------------------------------------------------------------------

api_request == op \in {"api_text_process", "api_voice_process"}

\* The pipeline ran to its last step, learning recommendations, and returned
\* its profile.
pipeline_succeeded == calls # <<>> /\ calls[Len(calls)] = "recommend_learning"

nothing_persisted ==
  /\ db.worker_profiles = <<>>
  /\ db.job_applications = <<>>
  /\ db.learning_progress = <<>>

\* C30: a request to /api/text/process or /api/voice/process that ends in an
\* error response has persisted no worker profile, no job application and no
\* learning-resource row; a request whose pipeline run succeeded ends in a
\* success response that carries the worker_id of the single profile it
\* stored.
C30_ErrorPersistsNothingSuccessStoresOne ==
  api_request =>
    /\ outcome.kind = "raise" => nothing_persisted
    /\ pipeline_succeeded =>
         /\ outcome.kind = "return"
         /\ outcome.value.success
         /\ Len(db.worker_profiles) = 1
         /\ db.worker_profiles[1].worker_id = outcome.value.worker_id

====
